---- MODULE Spec2Model ----
(***************************************************************************)
(* Model of the OPTIMUM PRIME ULTIMATE optimizer (Phase4_Ultimate.js):     *)
(* the two-way hill-climbing loop, the three-way rotation phase, the       *)
(* feasibility oracle canSwapStudents_Ultimate, the cost function          *)
(* calculateScore_Ultimate and the final DISSO validator.                  *)
(*                                                                         *)
(* Arithmetic.  The source computes scores in floating point.  The model   *)
(* computes the same quantities exactly, as integers: academic scores are  *)
(* stored doubled (COM = 2.5 is 5), and a class score is carried over the  *)
(* common denominator ScoreDen = 2 * N * lcm(1..N), N the cohort size, so  *)
(* that sums and comparisons of scores are exact.                          *)
(*                                                                         *)
(* Randomness.  Every Math.random() draw is a nondeterministic choice      *)
(* over the values the draw can return.                                    *)
(***************************************************************************)
EXTENDS Integers, Sequences, FiniteSets, TLC

VARIABLES
  allData,          \* student index -> student record (loadAndClassifyData_Ultimate)
  globalStats,      \* calculateGlobalStats_Ultimate(allData), as sums
  headers,          \* set of column names present in the header row
  ctx,              \* [quotas, niveaux, targets]: the read-only context
  cfg,              \* [maxSwaps, stagnationLimit]: ULTIMATE_CONFIG's loop budgets
  byClass,          \* class name -> sequence of student indices
  classNames,       \* Object.keys(byClass), in insertion order
  byClass0,         \* byClass as loaded (the input assignment)
  pc,               \* position in Phase4_Ultimate_Run
  iter,             \* two-way loop counter
  stagnationCount,
  swapsApplied,
  iter3,            \* three-way loop counter
  swaps3WayU,
  lastMove,         \* the move applied by the last step, or NoMove
  validation,       \* validateDISSOConstraints_Ultimate's result, once run
  audit             \* auditCacheAgainstStructure_'s report, once run

vars == <<allData, globalStats, headers, ctx, cfg, byClass, classNames, byClass0, pc, iter,
          stagnationCount, swapsApplied, iter3, swaps3WayU, lastMove, validation, audit>>

inputs == <<allData, globalStats, headers, ctx, cfg, classNames, byClass0>>

-----------------------------------------------------------------------------
(* Program constants *)

w_distrib == 5
w_parity == 4
headMin == 2
headMax == 5
niv1Max == 4
NoPartnerLimit == 10
SampleCap == 25
HARMONY_LV2_LIST == {"ITA", "ESP", "ALL", "PT"}
HARMONY_OPT_LIST == {"CHAV", "LATIN", "GREC"}

isKnownLV2(val) == val \in HARMONY_LV2_LIST
isKnownOPT(val) == val \in HARMONY_OPT_LIST

-----------------------------------------------------------------------------
(* Generic helpers *)

Range(s) == {s[i] : i \in DOMAIN s}

\* Least common multiple of 1..n, for the cohort sizes of the model
LcmUpTo(n) == IF n = 0 THEN 1 ELSE <<1, 2, 6, 12, 60, 60, 420, 840, 2520, 2520>>[n]

Abs(x) == IF x < 0 THEN -x ELSE x

Min(a, b) == IF a < b THEN a ELSE b
Max(a, b) == IF a > b THEN a ELSE b

\* Array.prototype.filter(x => x !== v)
FilterOut(s, v) == SelectSeq(s, LAMBDA x : x # v)

RECURSIVE SumInts(_)
SumInts(s) == IF s = <<>> THEN 0 ELSE Head(s) + SumInts(Tail(s))

-----------------------------------------------------------------------------
(* Cell values.  String(x || '').trim().toUpperCase() is applied to every  *)
(* LV2 / OPT / ASSO / DISSO cell before it is compared.  NormTable lists   *)
(* the raw cell texts the model draws from, with their normal forms.       *)

NormTable ==
  [r \in {"", "  ", "D1", "d1 ", "D2", "A1", "a1", "A2",
          "ITA", "ESP", "ALL", "PT", "CHAV", "LATIN", "GREC", "esp", "AUTRE"} |->
     CASE r = "  "  -> ""
       [] r = "d1 " -> "D1"
       [] r = "a1"  -> "A1"
       [] r = "esp" -> "ESP"
       [] OTHER     -> r]

TrimUpper(raw) == NormTable[raw]

\* row[headers.indexOf(col)]: undefined when the column is absent
\* headersRef stays null when no sheet has a data row; the columns are
\* otherwise modelled as the set of their names
NullHeaders == {"null"}

Cell(student, col) == IF col \in headers THEN student[col] ELSE ""

Code(student, col) == TrimUpper(Cell(student, col))

\* A faulty isFixed that reads no mobility text as fixed: Mobility must reject it
isFixed_Never(student) == FALSE

\* String.prototype.includes('FIXE') || includes('NON'), over the mobility
\* texts the model draws from
isFixed(student) == student.mobilite \in {"FIXE", "NON", "NON MOBILE"}

-----------------------------------------------------------------------------
(* Derived flags, set once when a student is loaded *)

\* scoreMoy >= 3.5 with scoreMoy = (COM + TRA + PART) / 3, scores doubled
isHead(s) == (s.COM >= 8 \/ s.TRA >= 8) \/ (s.COM + s.TRA + s.PART >= 21)

isNiv1(s) == (s.COM <= 2 \/ s.TRA <= 2)

-----------------------------------------------------------------------------
(* Cohort statistics and the cost function *)

NbStudents == Len(allData)

\* Scores are integers over this denominator
ScoreDen == 2 * NbStudents * LcmUpTo(NbStudents)

NbFilles(indices) == Len(SelectSeq(indices, LAMBDA i : allData[i].sexe = "F"))
SumCOM(indices) == SumInts([k \in DOMAIN indices |-> allData[indices[k]].COM])
SumTRA(indices) == SumInts([k \in DOMAIN indices |-> allData[indices[k]].TRA])
SumPART(indices) == SumInts([k \in DOMAIN indices |-> allData[indices[k]].PART])

\* calculateGlobalStats_Ultimate, kept as counts and sums over total = Len(data):
\* ratioF = nbFilles / total, avgCOM = sumCOM / (2 * total), ...  With no student
\* it returns ratioF 0.5 and averages 2.5, which no score ever reads.
calculateGlobalStats_Ultimate(data) ==
  [total |-> Len(data),
   nbFilles |-> Cardinality({i \in DOMAIN data : data[i].sexe = "F"}),
   sumCOM |-> SumInts([i \in DOMAIN data |-> data[i].COM]),
   sumTRA |-> SumInts([i \in DOMAIN data |-> data[i].TRA]),
   sumPART |-> SumInts([i \in DOMAIN data |-> data[i].PART])]

\* ctx.targets[className], 0 when absent (a falsy target skips the term)
TargetOf(className) ==
  IF className \in DOMAIN ctx.targets THEN ctx.targets[className] ELSE 0

\* |x/total - X/N| as a numerator over total * N
Dev(x, total, X) == Abs(x * NbStudents - X * total)

\* calculateScore_Ultimate, times ScoreDen
calculateScore_Flat(indices, className) ==
  LET total == Len(indices)
      target == TargetOf(className)
      sizeTerm == IF target # 0 THEN (total - target) * (total - target) * 800 ELSE 0
      nbTetes == Len(SelectSeq(indices, LAMBDA i : isHead(allData[i])))
      nbNiv1 == Len(SelectSeq(indices, LAMBDA i : isNiv1(allData[i])))
      headLow == IF nbTetes < headMin
                 THEN (headMin - nbTetes) * (headMin - nbTetes) * 500 ELSE 0
      headHigh == IF nbTetes > headMax THEN (nbTetes - headMax) * 200 ELSE 0
      niv1Term == IF nbNiv1 > niv1Max
                  THEN (nbNiv1 - niv1Max) * (nbNiv1 - niv1Max) * 100
                  ELSE 0
      \* the four ratio terms, over the denominator 2 * total * NbStudents
      parity == 2 * Dev(NbFilles(indices), total, globalStats.nbFilles) * 1000 * w_parity
      devCOM == Dev(SumCOM(indices), total, globalStats.sumCOM) * 100 * w_distrib
      devTRA == Dev(SumTRA(indices), total, globalStats.sumTRA) * 100 * w_distrib
      devPART == Dev(SumPART(indices), total, globalStats.sumPART) * 50 * w_distrib
  IN IF total = 0 THEN 10000 * ScoreDen
     ELSE (sizeTerm + headLow + headHigh + niv1Term) * ScoreDen
          + (parity + devCOM + devTRA + devPART) * (LcmUpTo(NbStudents) \div total)

calculateScore_Ultimate(indices, className) ==
  LET total == Len(indices)
      target == TargetOf(className)
      sizeTerm == IF target # 0 THEN (total - target) * (total - target) * 800 ELSE 0
      nbTetes == Len(SelectSeq(indices, LAMBDA i : isHead(allData[i])))
      nbNiv1 == Len(SelectSeq(indices, LAMBDA i : isNiv1(allData[i])))
      headLow == IF nbTetes < headMin
                 THEN (headMin - nbTetes) * (headMin - nbTetes) * 500 ELSE 0
      headHigh == IF nbTetes > headMax THEN (nbTetes - headMax) * 200 ELSE 0
      niv1Term == IF nbNiv1 > niv1Max
                  THEN (nbNiv1 - niv1Max) * (nbNiv1 - niv1Max) * (nbNiv1 - niv1Max) * 100
                  ELSE 0
      \* the four ratio terms, over the denominator 2 * total * NbStudents
      parity == 2 * Dev(NbFilles(indices), total, globalStats.nbFilles) * 1000 * w_parity
      devCOM == Dev(SumCOM(indices), total, globalStats.sumCOM) * 100 * w_distrib
      devTRA == Dev(SumTRA(indices), total, globalStats.sumTRA) * 100 * w_distrib
      devPART == Dev(SumPART(indices), total, globalStats.sumPART) * 50 * w_distrib
  IN IF total = 0 THEN 10000 * ScoreDen
     ELSE (sizeTerm + headLow + headHigh + niv1Term) * ScoreDen
          + (parity + devCOM + devTRA + devPART) * (LcmUpTo(NbStudents) \div total)

\* x > t / 10^k for a score difference x carried over ScoreDen
Exceeds(x, pow10) == x > ScoreDen \div pow10

-----------------------------------------------------------------------------
(* The context: quotas and the universal LV2 codes *)

\* quotas[code] of a class, 0 when the class or the code is absent
QuotaOf(className, code) ==
  IF className \in DOMAIN ctx.quotas /\ code \in DOMAIN ctx.quotas[className]
  THEN ctx.quotas[className][code] ELSE 0

\* loadAndClassifyData_Ultimate: LV2 codes with a positive quota in as many
\* quota tables as ctx.niveaux has classes
lv2Universelles ==
  LET nbClasses == Len(ctx.niveaux)
      lv2Counts(code) ==
        Cardinality({c \in DOMAIN ctx.quotas :
                       code \in DOMAIN ctx.quotas[c] /\ ctx.quotas[c][code] > 0})
  IN {code \in HARMONY_LV2_LIST : lv2Counts(code) > 0 /\ lv2Counts(code) = nbClasses}

-----------------------------------------------------------------------------
(* The feasibility oracle *)

\* Peers of idx in idxList carrying the same normalised code in column col
OthersWithCode(idx, idxList, col, code) ==
  SelectSeq(idxList, LAMBDA j : j # idx /\ Code(allData[j], col) = code)

\* A faulty ASSO block that lets every mover go: the split count of an
\* affinity code must then be able to grow
AssoAllows_Always(idx1, idx2, idxList1, idxList2) == TRUE

\* A faulty ASSO block that looks at the peers of s1 only: two students of one
\* group must then be separable
AssoAllows_FirstOnly(idx1, idx2, idxList1, idxList2) ==
  "ASSO" \in headers =>
     LET asso_s1 == Code(allData[idx1], "ASSO")
     IN asso_s1 # "" => Len(OthersWithCode(idx1, idxList1, "ASSO", asso_s1)) = 0

\* The ASSO block: false when a mover would leave a peer of its group behind
AssoAllows_SecondOnly(idx1, idx2, idxList1, idxList2) ==
  "ASSO" \in headers =>
     LET asso_s2 == Code(allData[idx2], "ASSO")
     IN asso_s2 # "" => Len(OthersWithCode(idx2, idxList2, "ASSO", asso_s2)) = 0

AssoAllows(idx1, idx2, idxList1, idxList2) ==
  IF "ASSO" \in headers
  THEN LET asso_s1 == Code(allData[idx1], "ASSO")
           asso_s2 == Code(allData[idx2], "ASSO")
       IN /\ (asso_s1 # "" => Len(OthersWithCode(idx1, idxList1, "ASSO", asso_s1)) = 0)
          /\ (asso_s2 # "" => Len(OthersWithCode(idx2, idxList2, "ASSO", asso_s2)) = 0)
  ELSE TRUE

\* A faulty entry test that applies the LV2 quota test to universal codes too
OfferAllows_NoSpecialization(s, className) ==
  LET lv2 == Code(s, "LV2")
      opt == Code(s, "OPT")
      lv2Ok == (lv2 # "" /\ lv2 \notin lv2Universelles /\ isKnownLV2(lv2))
                 => QuotaOf(className, lv2) > 0
      optOk == (opt # "" /\ isKnownOPT(opt)) => QuotaOf(className, opt) > 0
  IN lv2Ok /\ optOk

OfferAllows_NoExemption(s, className) ==
  LET lv2 == Code(s, "LV2")
      opt == Code(s, "OPT")
      lv2Ok == (lv2 # "" /\ isKnownLV2(lv2)) => QuotaOf(className, lv2) > 0
      optOk == (opt # "" /\ isKnownOPT(opt)) => QuotaOf(className, opt) > 0
      classHasOptions == QuotaOf(className, "LATIN") > 0 \/ QuotaOf(className, "CHAV") > 0
      studentHasNoOption == opt = "" \/ (opt # "LATIN" /\ opt # "CHAV")
      specOk == ~(classHasOptions /\ studentHasNoOption /\ lv2 # "" /\ lv2 # "ESP")
  IN lv2Ok /\ optOk /\ specOk

\* Can student s enter class className: the LV2, OPT and specialisation tests
OfferAllows(s, className) ==
  LET lv2 == Code(s, "LV2")
      opt == Code(s, "OPT")
      lv2Ok == (lv2 # "" /\ lv2 \notin lv2Universelles /\ isKnownLV2(lv2))
                 => QuotaOf(className, lv2) > 0
      optOk == (opt # "" /\ isKnownOPT(opt)) => QuotaOf(className, opt) > 0
      classHasOptions == QuotaOf(className, "LATIN") > 0 \/ QuotaOf(className, "CHAV") > 0
      studentHasNoOption == opt = "" \/ (opt # "LATIN" /\ opt # "CHAV")
      specOk == ~(classHasOptions /\ studentHasNoOption /\ lv2 # "" /\ lv2 # "ESP")
  IN lv2Ok /\ optOk /\ specOk

\* The DISSO loops: no student of idxList other than idxOut carries idxIn's code
DissoAllows_CountPartner(idxIn, idxOut, idxList) ==
  LET disso == Code(allData[idxIn], "DISSO")
  IN disso # "" => Len(SelectSeq(idxList, LAMBDA j : Code(allData[j], "DISSO") = disso)) = 0

\* A faulty DISSO loop that compares the cells as written: a carrier of "d1 "
\* may then join a class that holds a carrier of "D1"
DissoAllows_AsWritten(idxIn, idxOut, idxList) ==
  LET disso == Cell(allData[idxIn], "DISSO")
  IN disso # "" => Len(SelectSeq(idxList, LAMBDA j :
                         j # idxOut /\ Cell(allData[j], "DISSO") = disso)) = 0

DissoAllows(idxIn, idxOut, idxList) ==
  LET disso == Code(allData[idxIn], "DISSO")
  IN disso # "" => Len(OthersWithCode(idxOut, idxList, "DISSO", disso)) = 0

\* A faulty oracle that goes on without the DISSO column (Cell then reads
\* every antinomy code as empty): the run must then be able to apply moves
canSwapStudents_NoSafetyCheck(idx1, idx2, cls1Name, cls2Name, idxList1, idxList2) ==
  /\ AssoAllows(idx1, idx2, idxList1, idxList2)
  /\ OfferAllows(allData[idx2], cls1Name)
  /\ OfferAllows(allData[idx1], cls2Name)
  /\ DissoAllows(idx1, idx2, idxList2)
  /\ DissoAllows(idx2, idx1, idxList1)

canSwapStudents_OneWay(idx1, idx2, cls1Name, cls2Name, idxList1, idxList2) ==
  /\ AssoAllows(idx1, idx2, idxList1, idxList2)
  /\ "DISSO" \in headers
  /\ OfferAllows(allData[idx2], cls1Name)
  /\ DissoAllows(idx1, idx2, idxList2)
  /\ DissoAllows(idx2, idx1, idxList1)

canSwapStudents_Ultimate(idx1, idx2, cls1Name, cls2Name, idxList1, idxList2) ==
  /\ AssoAllows(idx1, idx2, idxList1, idxList2)
  /\ "DISSO" \in headers
  /\ OfferAllows(allData[idx2], cls1Name)
  /\ OfferAllows(allData[idx1], cls2Name)
  /\ DissoAllows(idx1, idx2, idxList2)
  /\ DissoAllows(idx2, idx1, idxList1)

-----------------------------------------------------------------------------
(* Worst class, partner class *)

NoClass == "null"

Score(className) == calculateScore_Ultimate(byClass[className], className)

\* Sum of the class scores, over ScoreDen
TotalScore == SumInts([k \in DOMAIN classNames |-> Score(classNames[k])])

\* First index k of names maximising f(names[k]); 0 when names is empty
RECURSIVE ArgMaxFirst(_, _, _, _)
ArgMaxFirst(vals, k, best, bestVal) ==
  IF k > Len(vals) THEN best
  ELSE IF vals[k] > bestVal THEN ArgMaxFirst(vals, k + 1, k, vals[k])
       ELSE ArgMaxFirst(vals, k + 1, best, bestVal)

\* findWorstClass_Ultimate: maxScore starts at -1, strict >, key order
findWorstClass_Last ==
  LET maxes == {k \in DOMAIN classNames :
                  \A j \in DOMAIN classNames : Score(classNames[j]) <= Score(classNames[k])}
  IN IF classNames = <<>> THEN NoClass
     ELSE classNames[CHOOSE k \in maxes : \A j \in maxes : j <= k]

findWorstClass_Ultimate ==
  LET vals == [k \in DOMAIN classNames |-> Score(classNames[k])]
      k == ArgMaxFirst(vals, 1, 0, -1)
  IN IF k = 0 THEN NoClass ELSE classNames[k]

OtherClasses(worstClass) == SelectSeq(classNames, LAMBDA c : c # worstClass)

\* Complementarity of cls with worstClass, over the denominator
\* Len(byClass[worstClass]) * lcm(1..N); -1 stands for a skipped (empty) class
Complementarity(worstClass, cls) ==
  LET w == byClass[worstClass]
      l == byClass[cls]
      wn == Len(w)
      cn == Len(l)
      L == LcmUpTo(NbStudents)
      heads(x) == Len(SelectSeq(x, LAMBDA i : isHead(allData[i])))
      niv1(x) == Len(SelectSeq(x, LAMBDA i : isNiv1(allData[i])))
      teteDiff == (heads(w) - headMin) - (heads(l) - headMin)
      niv1Diff == (niv1(w) - niv1Max) - (niv1(l) - niv1Max)
      F == globalStats.nbFilles
      SC == globalStats.sumCOM
      \* ratio comparisons against the cohort value, cross-multiplied
      wF == NbFilles(w) * NbStudents - F * wn
      cF == NbFilles(l) * NbStudents - F * cn
      wC == SumCOM(w) * NbStudents - SC * wn
      cC == SumCOM(l) * NbStudents - SC * cn
      parityBonus == IF (wF > 0 /\ cF < 0) \/ (wF < 0 /\ cF > 0) THEN 2 ELSE 0
      \* |worstAvgCOM - clsAvgCOM| * 2 = |SumCOM(w)*cn - SumCOM(l)*wn| / (wn*cn)
      comBonus == IF (wC > 0 /\ cC < 0) \/ (wC < 0 /\ cC > 0)
                  THEN Abs(SumCOM(w) * cn - SumCOM(l) * wn) * (L \div cn) ELSE 0
  IN IF cn = 0 THEN -1
     ELSE (Abs(teteDiff) * 3 + Abs(niv1Diff) * 3 + parityBonus) * wn * L + comBonus

\* A faulty partner selection without the exploration branch: only the most
\* complementary class is ever paired with the worst class
findPartnerClass_NoExplore(worstClass, explore, rnd) ==
  LET classes == OtherClasses(worstClass)
      vals == [k \in DOMAIN classes |-> Complementarity(worstClass, classes[k])]
      k == ArgMaxFirst(vals, 1, 0, -1)
  IN IF Len(classes) = 0 THEN NoClass
     ELSE IF Len(byClass[worstClass]) = 0 THEN NoClass
     ELSE IF k = 0 THEN NoClass ELSE classes[k]

\* findPartnerClass_Ultimate; explore is the outcome of Math.random() < 0.2
\* and rnd the index drawn by the exploration branch
findPartnerClass_ExploreAll(worstClass, explore, rnd) ==
  LET classes == OtherClasses(worstClass)
      vals == [k \in DOMAIN classes |-> Complementarity(worstClass, classes[k])]
      k == ArgMaxFirst(vals, 1, 0, -1)
  IN IF Len(classes) = 0 THEN NoClass
     ELSE IF Len(byClass[worstClass]) = 0 THEN NoClass
     ELSE IF explore THEN classNames[rnd]
     ELSE IF k = 0 THEN NoClass ELSE classes[k]

findPartnerClass_Ultimate(worstClass, explore, rnd) ==
  LET classes == OtherClasses(worstClass)
      vals == [k \in DOMAIN classes |-> Complementarity(worstClass, classes[k])]
      k == ArgMaxFirst(vals, 1, 0, -1)
  IN IF Len(classes) = 0 THEN NoClass
     ELSE IF Len(byClass[worstClass]) = 0 THEN NoClass
     ELSE IF explore THEN classes[rnd]
     ELSE IF k = 0 THEN NoClass ELSE classes[k]

-----------------------------------------------------------------------------
(* Two-way search *)

NoMove == [kind |-> "none"]

\* Lists after exchanging i1 (in list1) and i2 (in list2): filter then concat
SwapLists(list1, list2, i1, i2) ==
  <<Append(FilterOut(list1, i1), i2), Append(FilterOut(list2, i2), i1)>>

\* A faulty gain with the difference taken the other way round
SwapGain_Reversed(cls1Name, cls2Name, i1, i2) ==
  LET idxList1 == byClass[cls1Name]
      idxList2 == byClass[cls2Name]
      temp == SwapLists(idxList1, idxList2, i1, i2)
      scoreBefore == calculateScore_Ultimate(idxList1, cls1Name)
                     + calculateScore_Ultimate(idxList2, cls2Name)
      scoreAfter == calculateScore_Ultimate(temp[1], cls1Name)
                    + calculateScore_Ultimate(temp[2], cls2Name)
  IN scoreAfter - scoreBefore

\* scoreBefore - scoreAfter of the simulated swap, over ScoreDen
SwapGain(cls1Name, cls2Name, i1, i2) ==
  LET idxList1 == byClass[cls1Name]
      idxList2 == byClass[cls2Name]
      temp == SwapLists(idxList1, idxList2, i1, i2)
      scoreBefore == calculateScore_Ultimate(idxList1, cls1Name)
                     + calculateScore_Ultimate(idxList2, cls2Name)
      scoreAfter == calculateScore_Ultimate(temp[1], cls1Name)
                    + calculateScore_Ultimate(temp[2], cls2Name)
  IN scoreBefore - scoreAfter

\* A faulty filter that lets fixed students through to the oracle
PairEligible_IgnoreFixed(cls1Name, cls2Name, i1, i2) ==
  canSwapStudents_Ultimate(i1, i2, cls1Name, cls2Name, byClass[cls1Name], byClass[cls2Name])

\* A sampled pair passes the three filters of the double loop
PairEligible(cls1Name, cls2Name, i1, i2) ==
  /\ ~isFixed(allData[i1])
  /\ ~isFixed(allData[i2])
  /\ canSwapStudents_Ultimate(i1, i2, cls1Name, cls2Name,
                              byClass[cls1Name], byClass[cls2Name])

sampleSize(cls1Name, cls2Name) ==
  Min(SampleCap, Max(Len(byClass[cls1Name]), Len(byClass[cls2Name])))

\* The sets of pairs (i1, i2) the double loop can draw: at most sampleSize
\* distinct i1, and for an i1 drawn d times at most d * sampleSize distinct i2.
\* A pair whose i1 is fixed stands for a draw of i1 that is skipped.
SampleSets(cls1Name, cls2Name) ==
  LET n == sampleSize(cls1Name, cls2Name)
      all == Range(byClass[cls1Name]) \X Range(byClass[cls2Name])
      firsts(S) == {p[1] : p \in S}
      seconds(S, i1) == {p[2] : p \in {q \in S : q[1] = i1}}
  IN IF n >= Len(byClass[cls1Name]) /\ n >= Len(byClass[cls2Name])
     THEN (SUBSET all) \ {{}}     \* no more than SampleCap students a class
     ELSE {S \in SUBSET all :
             /\ S # {}
             /\ Cardinality(firsts(S)) <= n
             /\ \A i1 \in firsts(S) :
                  Cardinality(seconds(S, i1)) <= n * (n - Cardinality(firsts(S)) + 1)}

\* The pairs that pass the three filters, each with its gain: <<i1, i2, gain>>
ScoredPairs_Unfiltered(cls1Name, cls2Name) ==
  {<<p[1], p[2], SwapGain(cls1Name, cls2Name, p[1], p[2])>> :
     p \in Range(byClass[cls1Name]) \X Range(byClass[cls2Name])}

ScoredPairs(cls1Name, cls2Name) ==
  {<<p[1], p[2], SwapGain(cls1Name, cls2Name, p[1], p[2])>> :
     p \in {q \in Range(byClass[cls1Name]) \X Range(byClass[cls2Name]) :
              PairEligible(cls1Name, cls2Name, q[1], q[2])}}

\* The double loop over a drawn sample, given the scored eligible pairs:
\* maxGain starts at 0 and is replaced on a strictly greater gain, so the
\* result is a pair of maximal gain among the eligible sampled pairs of
\* positive gain (the first one drawn), or null
BestOfSample_AnyGain(cls1Name, cls2Name, sample, scored) ==
  LET ok == {t \in scored : <<t[1], t[2]>> \in sample /\ t[3] > 0}
  IN IF ok = {} THEN {NoMove}
     ELSE {[kind |-> "swap", idx1 |-> t[1], idx2 |-> t[2],
            cls1 |-> cls1Name, cls2 |-> cls2Name, gain |-> t[3]] : t \in ok}

BestOfSample(cls1Name, cls2Name, sample, scored) ==
  LET ok == {t \in scored : <<t[1], t[2]>> \in sample /\ t[3] > 0}
      best == {t \in ok : \A u \in ok : u[3] <= t[3]}
  IN IF ok = {} THEN {NoMove}
     ELSE {[kind |-> "swap", idx1 |-> t[1], idx2 |-> t[2],
            cls1 |-> cls1Name, cls2 |-> cls2Name, gain |-> t[3]] : t \in best}

\* findBestSwapBetween_Ultimate on the drawn sample: the results it can return
findBestSwapBetween_Ultimate(cls1Name, cls2Name, sample) ==
  BestOfSample(cls1Name, cls2Name, sample, ScoredPairs(cls1Name, cls2Name))

\* A faulty applySwap_Ultimate that pushes the two students without filtering
\* them out of their classes of origin: Conservation must reject it
applySwap_NoRemoval(swap) ==
  [byClass EXCEPT ![swap.cls1] = Append(byClass[swap.cls1], swap.idx2),
                  ![swap.cls2] = Append(byClass[swap.cls2], swap.idx1)]

\* applySwap_Ultimate: the new byClass
applySwap_Ultimate(swap) ==
  [byClass EXCEPT
     ![swap.cls1] = Append(FilterOut(byClass[swap.cls1], swap.idx1), swap.idx2),
     ![swap.cls2] = Append(FilterOut(byClass[swap.cls2], swap.idx2), swap.idx1)]

-----------------------------------------------------------------------------
(* Three-way rotation a -> c2, b -> c3, c -> c1 *)

RotateLists(r) ==
  [c1 |-> Append(FilterOut(byClass[r.c1], r.a), r.c),
   c2 |-> Append(FilterOut(byClass[r.c2], r.b), r.a),
   c3 |-> Append(FilterOut(byClass[r.c3], r.c), r.b)]

\* scoreBefore3 - scoreAfter3, over ScoreDen
RotationGain(r) ==
  LET temp == RotateLists(r)
      scoreBefore3 == Score(r.c1) + Score(r.c2) + Score(r.c3)
      scoreAfter3 == calculateScore_Ultimate(temp.c1, r.c1)
                     + calculateScore_Ultimate(temp.c2, r.c2)
                     + calculateScore_Ultimate(temp.c3, r.c3)
  IN scoreBefore3 - scoreAfter3

\* Every (c1, c2, c3, a, b, c) the sampling loops can draw and evaluate
Rotations ==
  UNION {[c1 : {t[1]}, c2 : {t[2]}, c3 : {t[3]}, a : Range(byClass[t[1]]),
          b : Range(byClass[t[2]]), c : Range(byClass[t[3]])] :
           t \in {u \in Range(classNames) \X Range(classNames) \X Range(classNames) :
                    u[1] # u[2] /\ u[2] # u[3] /\ u[1] # u[3]}}

\* The feasibility tests made on a drawn rotation
RotationEligible_IgnoreFixed(r) ==
  /\ canSwapStudents_Ultimate(r.a, r.b, r.c1, r.c2, byClass[r.c1], byClass[r.c2])
  /\ canSwapStudents_Ultimate(r.b, r.c, r.c2, r.c3, byClass[r.c2], byClass[r.c3])

RotationEligible(r) ==
  /\ ~isFixed(allData[r.a]) /\ ~isFixed(allData[r.b]) /\ ~isFixed(allData[r.c])
  /\ canSwapStudents_Ultimate(r.a, r.b, r.c1, r.c2, byClass[r.c1], byClass[r.c2])
  /\ canSwapStudents_Ultimate(r.b, r.c, r.c2, r.c3, byClass[r.c2], byClass[r.c3])

\* The rotations an outer iteration can retain as best3WayU: bestGain3U starts
\* at 0.001, and any eligible rotation above it is the best of the sample that
\* draws it alone
Best3WayChoices == {r \in Rotations : RotationEligible(r) /\ Exceeds(RotationGain(r), 1000)}

\* A faulty application that turns the rotation the other way (a -> c3,
\* b -> c1, c -> c2): the lists written are then not the lists scored
applyRotation_Reversed(r) ==
  [byClass EXCEPT ![r.c1] = Append(FilterOut(byClass[r.c1], r.a), r.b),
                  ![r.c2] = Append(FilterOut(byClass[r.c2], r.b), r.c),
                  ![r.c3] = Append(FilterOut(byClass[r.c3], r.c), r.a)]

\* The three assignments that apply best3WayU
applyRotation_Dropping(r) ==
  [byClass EXCEPT ![r.c1] = Append(FilterOut(byClass[r.c1], r.a), r.c),
                  ![r.c2] = Append(FilterOut(byClass[r.c2], r.b), r.a),
                  ![r.c3] = FilterOut(byClass[r.c3], r.c)]

applyRotation(r) ==
  [byClass EXCEPT ![r.c1] = Append(FilterOut(byClass[r.c1], r.a), r.c),
                  ![r.c2] = Append(FilterOut(byClass[r.c2], r.b), r.a),
                  ![r.c3] = Append(FilterOut(byClass[r.c3], r.c), r.b)]

-----------------------------------------------------------------------------
(* The final validator *)

\* Display name pushed into noms
NomOf(idx) == IF "NOM" \in headers THEN allData[idx].NOM ELSE <<"Eleve", idx>>

\* Keys of dissoCounts for a class, in insertion order
RECURSIVE DissoKeys(_, _)
DissoKeys(indices, seen) ==
  IF indices = <<>> THEN seen
  ELSE LET disso == Code(allData[Head(indices)], "DISSO")
       IN IF disso = "" \/ disso \in Range(seen)
          THEN DissoKeys(Tail(indices), seen)
          ELSE DissoKeys(Tail(indices), Append(seen, disso))

\* A faulty count that compares the cells as written, neither trimmed nor
\* upper-cased: carriers of "D1" and "d1 " are then not counted together
DissoEntry_Raw(indices, code) ==
  LET carriers == SelectSeq(indices, LAMBDA i : Cell(allData[i], "DISSO") = code)
  IN [code |-> code, count |-> Len(carriers),
      noms |-> [k \in DOMAIN carriers |-> NomOf(carriers[k])]]

\* dissoCounts[code] of a class
DissoEntry(indices, code) ==
  LET carriers == SelectSeq(indices, LAMBDA i : Code(allData[i], "DISSO") = code)
  IN [code |-> code, count |-> Len(carriers),
      noms |-> [k \in DOMAIN carriers |-> NomOf(carriers[k])]]

\* The duplicates pushed for one class
ClassDuplicates(assign, cls) ==
  LET keys == DissoKeys(assign[cls], <<>>)
      dups == SelectSeq(keys, LAMBDA code : DissoEntry(assign[cls], code).count > 1)
  IN [k \in DOMAIN dups |->
        [classe |-> cls, code |-> dups[k],
         count |-> DissoEntry(assign[cls], dups[k]).count,
         noms |-> DissoEntry(assign[cls], dups[k]).noms]]

RECURSIVE AllDuplicates(_, _)
AllDuplicates(assign, names) ==
  IF names = <<>> THEN <<>>
  ELSE ClassDuplicates(assign, Head(names)) \o AllDuplicates(assign, Tail(names))

validateDISSOConstraints_Ultimate(assign) ==
  IF "DISSO" \notin headers
  THEN [ok |-> TRUE, message |-> "Colonne DISSO non trouvee"]
  ELSE LET duplicates == AllDuplicates(assign, classNames)
       IN [ok |-> Len(duplicates) = 0, duplicates |-> duplicates]

NotValidated == [ok |-> FALSE, message |-> "not run"]

-----------------------------------------------------------------------------
(* Bounds of the model *)

\* Loop budgets the configurations are drawn from (ULTIMATE_CONFIG.maxSwaps is
\* 2000 and stagnationLimit 50 by default)
MaxSwapsSmall == 1
MaxSwapsLarge == 12
StagnationSmall == 2
\* The cap of the three-way loop (200 in the source)
Max3WayIter == 1

-----------------------------------------------------------------------------
(* Phase4_Ultimate_Run *)

\* for (let iter = 0; iter < ULTIMATE_CONFIG.maxSwaps; iter++)
TwoWayLoopGuard == iter < cfg.maxSwaps

\* for (let iter3 = 0; iter3 < 200; iter3++)
ThreeWayLoopGuard == iter3 < Max3WayIter

\* The partner classes findPartnerClass_Ultimate can return for a worst class
PartnerChoices(worstClass) ==
  {findPartnerClass_Ultimate(worstClass, explore, rnd) :
     explore \in BOOLEAN, rnd \in 1..Max(1, Len(OtherClasses(worstClass)))}

\* The stagnation test closing an iteration: break, or iter++
EndOfIteration(stag) ==
  IF stag >= cfg.stagnationLimit
  THEN pc' = "threeway" /\ iter' = iter
  ELSE pc' = "twoway" /\ iter' = iter + 1

\* if (!worstClassKey) break
TwoWayNoWorst ==
  /\ pc = "twoway" /\ TwoWayLoopGuard
  /\ findWorstClass_Ultimate = NoClass
  /\ pc' = "threeway"
  /\ lastMove' = NoMove
  /\ UNCHANGED <<inputs, audit, byClass, iter, stagnationCount, swapsApplied, iter3,
                 swaps3WayU, validation>>

\* A faulty no-partner step that never breaks: the loop then runs its budget out
TwoWayNoPartner_NoBreak ==
  /\ pc = "twoway" /\ TwoWayLoopGuard
  /\ \E worstClassKey \in {findWorstClass_Ultimate} :
       worstClassKey # NoClass /\ NoClass \in PartnerChoices(worstClassKey)
  /\ stagnationCount' = stagnationCount + 1
  /\ pc' = "twoway" /\ iter' = iter + 1
  /\ lastMove' = NoMove
  /\ UNCHANGED <<inputs, audit, byClass, swapsApplied, iter3, swaps3WayU, validation>>

\* if (!partnerClassKey) { stagnationCount++; if (stagnationCount > 10) break; continue; }
TwoWayNoPartner ==
  /\ pc = "twoway" /\ TwoWayLoopGuard
  /\ \E worstClassKey \in {findWorstClass_Ultimate} :
       worstClassKey # NoClass /\ NoClass \in PartnerChoices(worstClassKey)
  /\ stagnationCount' = stagnationCount + 1
  /\ IF stagnationCount + 1 > NoPartnerLimit
     THEN pc' = "threeway" /\ iter' = iter
     ELSE pc' = "twoway" /\ iter' = iter + 1
  /\ lastMove' = NoMove
  /\ UNCHANGED <<inputs, audit, byClass, swapsApplied, iter3, swaps3WayU, validation>>

\* The results step C can produce for a partner, over the samples it can draw
BestSwapsWith(worstClass, partner) ==
  UNION {UNION {BestOfSample(worstClass, partner, sample, scored) :
                  sample \in SampleSets(worstClass, partner)} :
           scored \in {ScoredPairs(worstClass, partner)}}

\* The results steps B and C can produce
BestSwaps(worstClass) ==
  UNION {BestSwapsWith(worstClass, partner) :
           partner \in PartnerChoices(worstClass) \ {NoClass}}

\* if (bestSwap && bestSwap.gain > 0.0001)
Accepted(bestSwap) == bestSwap # NoMove /\ Exceeds(bestSwap.gain, 10000)

\* Steps A to D with an accepted swap
TwoWaySwap ==
  /\ pc = "twoway" /\ TwoWayLoopGuard
  /\ \E worstClassKey \in {findWorstClass_Ultimate} :
       /\ worstClassKey # NoClass
       /\ \E bestSwap \in BestSwaps(worstClassKey) :
            /\ Accepted(bestSwap)
            /\ byClass' = applySwap_Ultimate(bestSwap)
            /\ lastMove' = bestSwap
  /\ swapsApplied' = swapsApplied + 1
  /\ stagnationCount' = 0
  /\ EndOfIteration(0)
  /\ UNCHANGED <<inputs, audit, iter3, swaps3WayU, validation>>

\* Steps A to D without an accepted swap
TwoWayStagnate_Leaky ==
  /\ pc = "twoway" /\ TwoWayLoopGuard
  /\ \E worstClassKey \in {findWorstClass_Ultimate} :
       /\ worstClassKey # NoClass
       /\ \E bestSwap \in BestSwaps(worstClassKey) : ~Accepted(bestSwap)
  /\ \E c1 \in DOMAIN byClass, c2 \in DOMAIN byClass :
       /\ c1 # c2
       /\ \E i1 \in Range(byClass[c1]), i2 \in Range(byClass[c2]) :
            byClass' = applySwap_Ultimate([kind |-> "swap", idx1 |-> i1, idx2 |-> i2,
                                           cls1 |-> c1, cls2 |-> c2, gain |-> 0])
  /\ stagnationCount' = stagnationCount + 1
  /\ EndOfIteration(stagnationCount + 1)
  /\ lastMove' = NoMove
  /\ UNCHANGED <<inputs, audit, swapsApplied, iter3, swaps3WayU, validation>>

TwoWayStagnate ==
  /\ pc = "twoway" /\ TwoWayLoopGuard
  /\ \E worstClassKey \in {findWorstClass_Ultimate} :
       /\ worstClassKey # NoClass
       /\ \E bestSwap \in BestSwaps(worstClassKey) : ~Accepted(bestSwap)
  /\ stagnationCount' = stagnationCount + 1
  /\ EndOfIteration(stagnationCount + 1)
  /\ lastMove' = NoMove
  /\ UNCHANGED <<inputs, audit, byClass, swapsApplied, iter3, swaps3WayU, validation>>

\* The loop condition fails
TwoWayExhausted ==
  /\ pc = "twoway" /\ ~TwoWayLoopGuard
  /\ pc' = "threeway"
  /\ lastMove' = NoMove
  /\ UNCHANGED <<inputs, audit, byClass, iter, stagnationCount, swapsApplied, iter3,
                 swaps3WayU, validation>>

\* An outer iteration of the three-way loop that retains a rotation
ThreeWayApply ==
  /\ pc = "threeway" /\ ThreeWayLoopGuard
  /\ \E r \in Best3WayChoices :
       /\ byClass' = applyRotation(r)
       /\ lastMove' = [kind |-> "rot", a |-> r.a, b |-> r.b, c |-> r.c,
                       c1 |-> r.c1, c2 |-> r.c2, c3 |-> r.c3,
                       gain |-> RotationGain(r)]
  /\ swaps3WayU' = swaps3WayU + 1
  /\ swapsApplied' = swapsApplied + 1
  /\ iter3' = iter3 + 1
  /\ UNCHANGED <<inputs, audit, pc, iter, stagnationCount, validation>>

\* if (!best3WayU) break: no draw of the iteration beat the threshold
ThreeWayBreak_Continue ==
  /\ pc = "threeway" /\ ThreeWayLoopGuard
  /\ iter3' = iter3 + 1
  /\ lastMove' = NoMove
  /\ UNCHANGED <<inputs, audit, byClass, pc, iter, stagnationCount, swapsApplied,
                 swaps3WayU, validation>>

ThreeWayBreak ==
  /\ pc = "threeway" /\ ThreeWayLoopGuard
  /\ pc' = "validate"
  /\ lastMove' = NoMove
  /\ UNCHANGED <<inputs, audit, byClass, iter, stagnationCount, swapsApplied, iter3,
                 swaps3WayU, validation>>

ThreeWayExhausted ==
  /\ pc = "threeway" /\ ~ThreeWayLoopGuard
  /\ pc' = "validate"
  /\ lastMove' = NoMove
  /\ UNCHANGED <<inputs, audit, byClass, iter, stagnationCount, swapsApplied, iter3,
                 swaps3WayU, validation>>

\* validateDISSOConstraints_Ultimate, then return
Validate ==
  /\ pc = "validate" /\ headers # NullHeaders
  /\ validation' = validateDISSOConstraints_Ultimate(byClass)
  /\ pc' = "done"
  /\ lastMove' = NoMove
  /\ UNCHANGED <<inputs, audit, byClass, iter, stagnationCount, swapsApplied, iter3,
                 swaps3WayU>>

\* headers.indexOf('DISSO') on a null headers: the validator throws a
\* TypeError, which leaves Phase4_Ultimate_Run without a result
ValidateThrows ==
  /\ pc = "validate" /\ headers = NullHeaders
  /\ pc' = "thrown"
  /\ lastMove' = NoMove
  /\ UNCHANGED <<inputs, audit, byClass, iter, stagnationCount, swapsApplied, iter3,
                 swaps3WayU, validation>>

\* The object Phase4_Ultimate_Run returns, once control is at "done"
\* (saveResult, the outcome of writing the sheets, is left out)
Result ==
  [ok |-> TRUE, swapsApplied |-> swapsApplied, swaps3Way |-> swaps3WayU,
   validation |-> validation]

Next ==
  \/ TwoWayNoWorst
  \/ TwoWayNoPartner
  \/ TwoWaySwap
  \/ TwoWayStagnate
  \/ TwoWayExhausted
  \/ ThreeWayApply
  \/ ThreeWayBreak
  \/ ThreeWayExhausted
  \/ Validate
  \/ ValidateThrows

-----------------------------------------------------------------------------
(* Inputs *)

AllHeaders == {"ID_ELEVE", "NOM", "SEXE", "COM", "TRA", "PART", "MOBILITE",
               "LV2", "OPT", "ASSO", "DISSO"}

\* A loaded student; scores are doubled, 5 is the 2.5 given to a missing score
Student(k, sexe, com, mob, lv2, opt, asso, disso) ==
  [NOM |-> <<"N", k>>, sexe |-> sexe, COM |-> com, TRA |-> 5, PART |-> 5,
   mobilite |-> mob, LV2 |-> lv2, OPT |-> opt, ASSO |-> asso, DISSO |-> disso]

\* Class layouts: names in sheet order and the membership lists as loaded
LayoutEmpty == [names |-> <<>>, assign |-> <<>>]
LayoutSingle == [names |-> <<"5A">>, assign |-> [c \in {"5A"} |-> <<1, 2>>]]
LayoutTriple ==
  [names |-> <<"5A", "5B", "5C">>,
   assign |-> [c \in {"5A", "5B", "5C"} |->
                 CASE c = "5A" -> <<1, 2>> [] c = "5B" -> <<3>> [] OTHER -> <<4>>]]

\* A class of three and two classes of one
LayoutWide ==
  [names |-> <<"5A", "5B", "5C">>,
   assign |-> [c \in {"5A", "5B", "5C"} |->
                 CASE c = "5A" -> <<1, 2, 3>> [] c = "5B" -> <<4>> [] OTHER -> <<5>>]]

\* A class of three and a class of two, for the validator
LayoutPair ==
  [names |-> <<"5A", "5B">>,
   assign |-> [c \in {"5A", "5B"} |-> IF c = "5A" THEN <<1, 2, 3>> ELSE <<4, 5>>]]

SizeOf(layout) == SumInts([k \in DOMAIN layout.names |-> Len(layout.assign[layout.names[k]])])

SmallConfig == [maxSwaps |-> MaxSwapsSmall, stagnationLimit |-> StagnationSmall]
LargeConfig == [maxSwaps |-> MaxSwapsLarge, stagnationLimit |-> StagnationSmall]
Configs == {SmallConfig, LargeConfig}

\* No audit has run
NotAudited == "none"

NoQuotas == [quotas |-> <<>>, targets |-> <<>>]

\* Gender assignments; the first student is a girl, the cost function and the
\* partner selection being unchanged when F and M are exchanged
Genders(n) == {sx \in [1..n -> {"F", "M"}] : n > 0 => sx[1] = "F"}

\* The state of a workbook as loaded, control standing at position at
InitStateAt(at, data, layout, hdrs, context, config) ==
  /\ allData = data
  /\ globalStats = calculateGlobalStats_Ultimate(data)
  /\ headers = hdrs
  /\ ctx = [quotas |-> context.quotas, niveaux |-> layout.names, targets |-> context.targets]
  /\ cfg = config
  /\ classNames = layout.names
  /\ byClass = layout.assign
  /\ byClass0 = layout.assign
  /\ pc = at
  /\ iter = 0
  /\ stagnationCount = 0
  /\ swapsApplied = 0
  /\ iter3 = 0
  /\ swaps3WayU = 0
  /\ lastMove = NoMove
  /\ validation = NotValidated
  /\ audit = NotAudited

\* The state Phase4_Ultimate_Run starts from
InitState(data, layout, hdrs, context, config) ==
  InitStateAt("twoway", data, layout, hdrs, context, config)

\* Every layout and both budgets, with and without size targets; a workbook
\* with no student has a header row (rows without ID_ELEVE) or none
InitCore ==
  \E layout \in {LayoutEmpty, LayoutSingle, LayoutTriple}, config \in Configs,
     tg \in {0, 2} :
    \E sx \in Genders(SizeOf(layout)),
       hdrs \in IF layout = LayoutEmpty THEN {AllHeaders, NullHeaders} ELSE {AllHeaders} :
      InitState([k \in 1..SizeOf(layout) |-> Student(k, sx[k], 5, "LIBRE", "", "", "", "")],
                layout, hdrs,
                [quotas |-> <<>>,
                 targets |-> IF tg = 0 THEN <<>> ELSE [c \in Range(layout.names) |-> tg]],
                config)

\* Cohorts differing in gender and academic level (COM 2.5 or 4)
InitLevels ==
  \E config \in Configs :
    \E sx \in [1..4 -> {"F", "M"}], cm \in [1..4 -> {5, 8}] :
      InitState([k \in 1..4 |-> Student(k, sx[k], cm[k], "LIBRE", "", "", "", "")],
                LayoutTriple, AllHeaders, NoQuotas, config)

\* Cohorts differing in gender and in the level (COM 2.5 or 4) of two students
InitHeads ==
  \E config \in Configs :
    \E sx \in Genders(4), cm \in [{1, 4} -> {5, 8}] :
      InitState([k \in 1..4 |-> Student(k, sx[k], IF k \in {1, 4} THEN cm[k] ELSE 5,
                                        "LIBRE", "", "", "", "")],
                LayoutTriple, AllHeaders, NoQuotas, config)

\* Cohorts differing in gender, mobility and, for two students, level
InitMobility ==
  \E sx \in Genders(4), mb \in [1..4 -> {"LIBRE", "FIXE", "NON"}],
     cm \in [{1, 3} -> {5, 8}] :
    InitState([k \in 1..4 |-> Student(k, sx[k], IF k \in {1, 3} THEN cm[k] ELSE 5,
                                      mb[k], "", "", "", "")],
              LayoutTriple, AllHeaders, NoQuotas, LargeConfig)

\* Cohorts differing in gender and antinomy code, with and without the column
InitDisso ==
  \E sx \in Genders(4), ds \in [1..4 -> {"", "D1", "d1 "}],
     hdrs \in {AllHeaders, AllHeaders \ {"DISSO"}} :
    InitState([k \in 1..4 |-> Student(k, sx[k], 5, "LIBRE", "", "", "", ds[k])],
              LayoutTriple, hdrs, NoQuotas, LargeConfig)

\* Cohorts differing in gender and affinity code
InitAsso ==
  \E sx \in Genders(5), as \in [1..5 -> {"", "A1", "a1"}] :
    InitState([k \in 1..5 |-> Student(k, sx[k], 5, "LIBRE", "", "", as[k], "")],
              LayoutWide, AllHeaders, NoQuotas, LargeConfig)

\* Cohorts differing in gender and LV2, ESP offered everywhere and ITA by some
\* classes
InitElectives ==
  \E sx \in Genders(4), lv \in [1..4 -> {"ESP", "ITA"}],
     ita \in [{"5A", "5B", "5C"} -> {0, 1}] :
    InitState([k \in 1..4 |-> Student(k, sx[k], 5, "LIBRE", lv[k], "", "", "")],
              LayoutTriple, AllHeaders,
              [quotas |-> [c \in {"5A", "5B", "5C"} |->
                             [code \in {"ESP", "ITA"} |-> IF code = "ESP" THEN 1 ELSE ita[c]]],
               targets |-> <<>>],
              LargeConfig)

\* Two classes of boys differing in antinomy code only: inputs of the validator
InitValidator ==
  \E ds \in [1..5 -> {"", "D1", "d1 ", "D2"}] :
    InitState([k \in 1..5 |-> Student(k, "M", 5, "LIBRE", "", "", "", ds[k])],
              LayoutPair, AllHeaders, NoQuotas, LargeConfig)

\* Cohorts differing in gender, mobility and antinomy code, those where every
\* student is fixed and those where the input holds duplicates included
InitFixed ==
  \E sx \in Genders(4), mb \in [1..4 -> {"LIBRE", "FIXE"}], ds \in [1..4 -> {"", "D1"}] :
    InitState([k \in 1..4 |-> Student(k, sx[k], 5, mb[k], "", "", "", ds[k])],
              LayoutTriple, AllHeaders, NoQuotas, LargeConfig)

Init == InitCore \/ InitLevels

Spec == Init /\ [][Next]_vars

\* The run is one sequential thread: it takes its next step whenever it has one
SpecFair == (InitCore \/ InitHeads) /\ [][Next]_vars /\ WF_vars(Next)

SpecFixed == (InitCore \/ InitFixed) /\ [][Next]_vars

SpecMobility == (InitCore \/ InitMobility) /\ [][Next]_vars

SpecDisso == (InitCore \/ InitDisso) /\ [][Next]_vars

SpecAsso == (InitCore \/ InitAsso) /\ [][Next]_vars

SpecElectives == (InitCore \/ InitElectives) /\ [][Next]_vars

SpecValidator == (InitCore \/ InitValidator) /\ [][Next]_vars

-----------------------------------------------------------------------------
(* The cache manager: mobility flags and the audit of the CACHE sheets.    *)
(* The CACHE sheets are the classes of classNames, their rows the members  *)
(* listed in byClass, their header row the columns of headers.             *)

\* _u_(x): the trimmed, upper-cased text of a cell or of a quota label
_u_(raw) == TrimUpper(raw)

\* The letters of the quota labels and codes the model draws from
Letters(label) ==
  CASE label = "ITA"   -> <<"I", "T", "A">>
    [] label = "ESP"   -> <<"E", "S", "P">>
    [] label = "ALL"   -> <<"A", "L", "L">>
    [] label = "PT"    -> <<"P", "T">>
    [] label = "CHAV"  -> <<"C", "H", "A", "V">>
    [] label = "LATIN" -> <<"L", "A", "T", "I", "N">>
    [] label = "GREC"  -> <<"G", "R", "E", "C">>
    [] label = "AUTRE" -> <<"A", "U", "T", "R", "E">>
    [] OTHER           -> <<>>

\* String.prototype.includes on letter sequences
Includes(text, part) ==
  \E k \in 0..(Len(text) - Len(part)) : SubSeq(text, k + 1, k + Len(part)) = part

\* The alternatives of the LV2 heuristic; LAT2? matches where LAT does
LV2Alternatives ==
  {<<"I", "T", "A">>, <<"A", "L", "L">>, <<"E", "S", "P">>, <<"P", "T">>,
   <<"C", "H", "I">>, <<"A", "N", "G">>, <<"G", "E", "R">>, <<"L", "A", "T">>,
   <<"A", "L", "L", "E", "M", "A", "N", "D">>, <<"E", "S", "P", "A", "G", "N", "O", "L">>,
   <<"I", "T", "A", "L", "I", "E", "N">>, <<"C", "H", "I", "N", "O", "I", "S">>,
   <<"P", "O", "R", "T", "U", "G", "A", "I", "S">>}

\* /(ITA|ALL|ESP|PT|...)/.test(L): an unanchored match
MatchesLV2(L) == \E alt \in LV2Alternatives : Includes(Letters(L), alt)

\* buildClassOffers_: class -> [LV2, OPT], every quota label of the class
\* filed under LV2 when the heuristic matches it and under OPT otherwise
buildClassOffers_ ==
  [cl \in Range(classNames) \cup DOMAIN ctx.quotas |->
     LET labels == IF cl \in DOMAIN ctx.quotas THEN DOMAIN ctx.quotas[cl] ELSE {}
     IN [LV2 |-> {_u_(label) : label \in {l \in labels : MatchesLV2(_u_(l))}},
         OPT |-> {_u_(label) : label \in {l \in labels : ~MatchesLV2(_u_(l))}}]]

\* computeAllow_: the classes whose LV2 set has the student's LV2, if any,
\* and whose OPT set has the student's OPT, if any (only the number of
\* allowed classes is read by the caller)
computeAllow_(eleve, classOffers) ==
  LET lv2 == _u_(eleve.lv2)
      opt == _u_(eleve.opt)
      byLV2 == IF lv2 # "" THEN {cl \in DOMAIN classOffers : lv2 \in classOffers[cl].LV2}
               ELSE DOMAIN classOffers
  IN IF opt # "" THEN {cl \in byLV2 : opt \in classOffers[cl].OPT} ELSE byLV2

\* The record computeMobilityFlags_ keeps of a row
Eleve(student) ==
  [lv2 |-> _u_(Cell(student, "LV2")), opt |-> _u_(Cell(student, "OPT")),
   A |-> _u_(Cell(student, "ASSO")), D |-> _u_(Cell(student, "DISSO"))]

\* A faulty labelling that looks at the admissible classes only: a pupil with
\* a code and several admissible classes is then LIBRE
MobilityOf_OffersOnly(student, classOffers) ==
  LET e == Eleve(student)
      allowed == computeAllow_(e, classOffers)
      isFixe == Cardinality(allowed) = 1
  IN IF isFixe THEN "FIXE" ELSE IF Cardinality(allowed) > 1 THEN "LIBRE" ELSE "PERMUT"

\* The MOBILITE text computeMobilityFlags_ writes for a row
MobilityOf(student, classOffers) ==
  LET e == Eleve(student)
      allowed == computeAllow_(e, classOffers)
      isFixe == e.A # "" \/ e.D # "" \/ Cardinality(allowed) = 1
  IN IF isFixe THEN "FIXE" ELSE IF Cardinality(allowed) > 1 THEN "LIBRE" ELSE "PERMUT"

\* computeMobilityFlags_: every row of every CACHE sheet gets its MOBILITE
\* (the FIXE column holds X exactly when MOBILITE is FIXE and is not modelled)
computeMobilityFlags_ ==
  /\ pc = "cache"
  /\ \E classOffers \in {buildClassOffers_} :
       allData' = [i \in DOMAIN allData |->
                     IF \E cls \in Range(classNames) : i \in Range(byClass[cls])
                     THEN [allData[i] EXCEPT !.mobilite = MobilityOf(allData[i], classOffers)]
                     ELSE allData[i]]
  /\ pc' = "flagged"
  /\ UNCHANGED <<globalStats, headers, ctx, cfg, classNames, byClass0, byClass, iter,
                 stagnationCount, swapsApplied, iter3, swaps3WayU, lastMove, validation,
                 audit>>

\* The quota keys buildOfferWithQuotas_ files under OPT
OptKeys == {"CHAV", "LAT", "GRE", "OPT", "ITA_OPT"}

\* buildOfferWithQuotas_: class -> [LV2, OPT, quotas]; every quota key of the
\* class is filed, under OPT when it is one of OptKeys and under LV2 otherwise
\* (k.toUpperCase(): the keys drawn carry no surrounding blanks)
buildOfferWithQuotas_ ==
  [cls \in Range(classNames) \cup DOMAIN ctx.quotas |->
     LET keys == IF cls \in DOMAIN ctx.quotas THEN DOMAIN ctx.quotas[cls] ELSE {}
     IN [LV2 |-> {TrimUpper(k) : k \in {l \in keys : TrimUpper(l) \notin OptKeys}},
         OPT |-> {IF TrimUpper(k) = "ITA_OPT" THEN "ITA" ELSE TrimUpper(k) :
                    k \in {l \in keys : TrimUpper(l) \in OptKeys}},
         quotas |-> [K \in {TrimUpper(k) : k \in keys} |->
                       ctx.quotas[cls][CHOOSE k \in keys : TrimUpper(k) = K]]]]

\* The report of a sheet without a data row
EmptyAudit ==
  [total |-> 0, F |-> 0, M |-> 0, FIXE |-> 0, PERMUT |-> 0, LIBRE |-> 0,
   violations |-> [LV2 |-> <<>>, OPT |-> <<>>, QUOTAS |-> {}]]

\* The report of one CACHE sheet: counts, and the rows whose LV2 (other than
\* ANG) or OPT is not in the class's list, and the quota deviations
AuditOf(cls, offer) ==
  LET rows == byClass[cls]
      lv2(i) == _u_(Cell(allData[i], "LV2"))
      opt(i) == _u_(Cell(allData[i], "OPT"))
      sexe(i) == IF "SEXE" \in headers THEN allData[i].sexe ELSE ""
      mob(i) == IF "MOBILITE" \in headers THEN allData[i].mobilite ELSE ""
      nb(P(_)) == Len(SelectSeq(rows, P))
      realized(k) == nb(LAMBDA i : lv2(i) = k /\ k # "ANG") + nb(LAMBDA i : opt(i) = k)
  IN IF Len(rows) = 0 THEN EmptyAudit
     ELSE [total |-> Len(rows),
           F |-> nb(LAMBDA i : sexe(i) = "F"),
           M |-> nb(LAMBDA i : sexe(i) = "M"),
           FIXE |-> nb(LAMBDA i : mob(i) = "FIXE"),
           PERMUT |-> nb(LAMBDA i : mob(i) = "PERMUT"),
           LIBRE |-> nb(LAMBDA i : mob(i) = "LIBRE"),
           violations |->
             [LV2 |-> SelectSeq(rows, LAMBDA i : lv2(i) # "" /\ lv2(i) # "ANG"
                                                 /\ lv2(i) \notin offer[cls].LV2),
              OPT |-> SelectSeq(rows, LAMBDA i : opt(i) # "" /\ opt(i) \notin offer[cls].OPT),
              QUOTAS |-> {<<k, offer[cls].quotas[k], realized(k)>> :
                            k \in {q \in DOMAIN offer[cls].quotas :
                                     /\ offer[cls].quotas[q] > 0
                                     /\ realized(q) # offer[cls].quotas[q]}}]]

\* auditCacheAgainstStructure_: one report per CACHE sheet
auditCacheAgainstStructure_ ==
  /\ pc \in {"cache", "flagged"}
  /\ \E offer \in {buildOfferWithQuotas_} :
       audit' = [cls \in Range(classNames) |-> AuditOf(cls, offer)]
  /\ pc' = "audited"
  /\ UNCHANGED <<inputs, byClass, iter, stagnationCount, swapsApplied, iter3, swaps3WayU,
                 lastMove, validation>>

NextCache ==
  \/ computeMobilityFlags_
  \/ auditCacheAgainstStructure_

\* The quota tables a class can have
QuotaTables ==
  {<<>>, [k \in {"ITA"} |-> 1], [k \in {"LATIN"} |-> 1], [k \in {"CHAV"} |-> 1],
   [k \in {"CHAV"} |-> 0], [k \in {"ITA", "LATIN"} |-> 1]}

\* CACHE sheets of three classes, differing in quotas and in the LV2, OPT,
\* ASSO and DISSO cells of the rows
InitCache ==
  \E qt \in [{"5A", "5B", "5C"} -> QuotaTables],
     lv \in {"", "ITA"}, op1 \in {"", "LATIN", "CHAV"}, op2 \in {"", "CHAV"},
     as \in {"", "A1"}, ds \in {"", "D1"} :
    InitStateAt("cache",
                [k \in 1..4 |->
                   CASE k = 1 -> Student(k, "F", 5, "", lv, op1, "", "")
                     [] k = 2 -> Student(k, "M", 5, "", "", op2, "", "")
                     [] k = 3 -> Student(k, "F", 5, "", "", "", as, ds)
                     [] OTHER -> Student(k, "M", 5, "", "", "", "", "")],
                 LayoutTriple, AllHeaders, [quotas |-> qt, targets |-> <<>>], LargeConfig)

SpecCache == InitCache /\ [][NextCache]_vars

\* Phase4_Ultimate_Run reading the sheets computeMobilityFlags_ has written:
\* the loader takes each row's MOBILITE text (upper-cased, which leaves FIXE,
\* LIBRE and PERMUT as written) and the statistics are computed afresh
loadAndClassifyData_Ultimate ==
  /\ pc = "flagged"
  /\ globalStats' = calculateGlobalStats_Ultimate(allData)
  /\ pc' = "twoway"
  /\ UNCHANGED <<allData, headers, ctx, cfg, classNames, byClass0, byClass, iter,
                 stagnationCount, swapsApplied, iter3, swaps3WayU, lastMove, validation,
                 audit>>

NextInterplay ==
  \/ computeMobilityFlags_
  \/ loadAndClassifyData_Ultimate
  \/ Next

\* CACHE sheets not yet flagged, differing in gender, in the level of one
\* pupil, in the ASSO and DISSO cells and in whether 5A alone offers the ITA
\* that one of its pupils takes
InitInterplay ==
  \E sx \in Genders(5), cm \in {5, 8}, as \in [{1, 2} -> {"", "A1"}],
     ds \in [{3, 4} -> {"", "D1"}], ita \in BOOLEAN :
    InitStateAt("cache",
                [k \in 1..5 |->
                   Student(k, sx[k], IF k = 1 THEN cm ELSE 5, "",
                           IF k = 2 /\ ita THEN "ITA" ELSE "", "",
                           IF k \in {1, 2} THEN as[k] ELSE "",
                           IF k \in {3, 4} THEN ds[k] ELSE "")],
                LayoutWide, AllHeaders,
                [quotas |-> IF ita THEN [c \in {"5A"} |-> [q \in {"ITA"} |-> 1]] ELSE <<>>,
                 targets |-> <<>>],
                LargeConfig)

SpecInterplay == (InitCore \/ InitInterplay) /\ [][NextInterplay]_vars

\* Cohorts with ITA, ESP or no LV2 and possibly CHAV, where ctx.quotas and
\* ctx.niveaux are read independently: some classes have one of three quota
\* tables, and 5D, that is no class of ctx.niveaux, has a table or none
InitUniversal ==
  \E present \in SUBSET {"5A", "5B", "5C"}, other \in SUBSET {"5D"},
     lv \in [{1, 3, 4} -> {"", "ESP", "ITA"}], op \in {"", "CHAV"} :
    \E own \in [present -> {[k \in {"ITA"} |-> 0], [k \in {"ITA"} |-> 1],
                            [k \in {"ITA", "CHAV"} |-> 1]}] :
      InitState([k \in 1..4 |->
                   Student(k, IF k <= 2 THEN "F" ELSE "M", 5, "LIBRE",
                           IF k = 2 THEN "" ELSE lv[k], IF k = 1 THEN op ELSE "", "", "")],
                LayoutTriple, AllHeaders,
                [quotas |-> [c \in present \cup other |->
                               IF c \in other THEN [k \in {"ITA"} |-> 1] ELSE own[c]],
                 targets |-> <<>>],
                LargeConfig)

SpecUniversal == (InitCore \/ InitUniversal) /\ [][Next]_vars

\* Two classes of four
LayoutTwoFours ==
  [names |-> <<"5A", "5B">>,
   assign |-> [c \in {"5A", "5B"} |-> IF c = "5A" THEN <<1, 2, 3, 4>> ELSE <<5, 6, 7, 8>>]]

\* The pure-parity cohort: 5A = F F F M, 5B = M M M F, equal levels, no codes
InitParity ==
  \E config \in Configs :
    InitState([k \in 1..8 |-> Student(k, IF k \in {1, 2, 3, 8} THEN "F" ELSE "M", 5,
                                      "LIBRE", "", "", "", "")],
              LayoutTwoFours, AllHeaders, NoQuotas, config)

SpecParity == (InitCore \/ InitParity) /\ [][Next]_vars

\* Two classes of three and two pupils whose COM marks are average or
\* excellent; with five excellent girls every class has score 0
InitPerfect ==
  \E config \in Configs :
    \E sx \in {"F", "M"}, cm \in [1..5 -> {5, 8}] :
      InitState([k \in 1..5 |-> Student(k, IF k = 1 THEN sx ELSE "F", cm[k],
                                        "LIBRE", "", "", "", "")],
                LayoutPair, AllHeaders, NoQuotas, config)

SpecPerfect == (InitCore \/ InitPerfect) /\ [][Next]_vars

LayoutDuo ==
  [names |-> <<"5A", "5B">>,
   assign |-> [c \in {"5A", "5B"} |-> IF c = "5A" THEN <<1, 2>> ELSE <<3>>]]

\* Two pupils of 5A with one affinity code, written in two ways, facing one
\* pupil of 5B
InitTogether ==
  \E config \in Configs :
    \E sx \in Genders(3), g2 \in {"A1", "a1"}, g3 \in {"", "A1", "A2"} :
      InitState([k \in 1..3 |-> Student(k, sx[k], 5, "LIBRE", "", "",
                                        CASE k = 1 -> "A1" [] k = 2 -> g2 [] OTHER -> g3, "")],
                LayoutDuo, AllHeaders, NoQuotas, config)

SpecAffinity == (InitCore \/ InitAsso \/ InitTogether) /\ [][Next]_vars

LayoutSevenOne ==
  [names |-> <<"5A", "5B">>,
   assign |-> [c \in {"5A", "5B"} |-> IF c = "5A" THEN <<1, 2, 3, 4, 5, 6, 7>> ELSE <<8>>]]

\* The profiles a pupil is drawn with: doubled COM and TRA marks that make an
\* average pupil, a head of class, a pupil in difficulty, or both at once
Profiles == {<<5, 5>>, <<8, 5>>, <<2, 5>>, <<8, 2>>}

\* A class of seven facing a class of one: five pupils of one profile and
\* three of any, with or without a target size for the large class
InitProfiles ==
  \E pr \in [{1, 6, 7, 8} -> Profiles], sx \in {"F", "M"}, tg \in {0, 6, 7} :
    InitState([k \in 1..8 |->
                 [Student(k, IF k \in {2, 4, 8} THEN sx ELSE "F",
                          pr[IF k <= 5 THEN 1 ELSE k][1], "LIBRE", "", "", "", "")
                    EXCEPT !.TRA = pr[IF k <= 5 THEN 1 ELSE k][2]]],
              LayoutSevenOne, AllHeaders,
              [quotas |-> <<>>,
               targets |-> IF tg = 0 THEN <<>> ELSE [c \in {"5A"} |-> tg]],
              SmallConfig)

SpecProfiles == (InitCore \/ InitProfiles) /\ [][Next]_vars

-----------------------------------------------------------------------------
(* Properties *)

\* Number of positions of the membership lists of assign that hold student i
Occurrences(assign, i) ==
  SumInts([k \in DOMAIN classNames |->
             Len(SelectSeq(assign[classNames[k]], LAMBDA x : x = i))])

\* The members of all the lists of assign
Members(assign) == UNION {Range(assign[c]) : c \in DOMAIN assign}

\* C1 - Conservation: in every state reached by applied two-way swaps and
\* three-way rotations, every student of the input is in exactly one
\* membership list, exactly once, and no student is added or lost: each id
\* occurs as many times as in the input assignment.
Conservation ==
  /\ Members(byClass) = DOMAIN allData
  /\ DOMAIN byClass = DOMAIN byClass0
  /\ \A i \in DOMAIN allData :
       Occurrences(byClass, i) = 1 /\ Occurrences(byClass0, i) = 1

\* A two-way swap and a three-way rotation have both been applied
ConservationWitness ==
  /\ swaps3WayU >= 1 /\ swapsApplied - swaps3WayU >= 1
  /\ byClass # byClass0

\* The classes whose membership list in assign holds student i
ClassesOf(assign, i) == {c \in DOMAIN assign : i \in Range(assign[c])}

\* The students whose mobility text carries FIXE or NON
FixedStudents == {i \in DOMAIN allData : allData[i].mobilite \in {"FIXE", "NON"}}

\* C2 - Mobility: a student whose mobility flag is fixed is, in every reachable
\* state, in the class it has in the input; no two-way swap and no three-way
\* rotation moves a fixed student.
Mobility ==
  /\ \A i \in FixedStudents : ClassesOf(byClass, i) = ClassesOf(byClass0, i)
  /\ lastMove.kind = "swap" => {lastMove.idx1, lastMove.idx2} \cap FixedStudents = {}
  /\ lastMove.kind = "rot" => {lastMove.a, lastMove.b, lastMove.c} \cap FixedStudents = {}

\* A swap and a rotation have been applied around a fixed student, the last
\* move changing the class the fixed student sits in
MobilityWitness ==
  /\ swaps3WayU >= 1 /\ swapsApplied - swaps3WayU >= 1
  /\ lastMove.kind = "rot"
  /\ \E i \in FixedStudents : i \in Range(byClass[lastMove.c1])

\* The pairs of distinct students of one class of assign that carry the same
\* non-empty code in column col, codes compared trimmed and in upper case
SameCodePairs(assign, col) ==
  {<<c, i, j>> \in UNION {{c} \X Range(assign[c]) \X Range(assign[c]) : c \in DOMAIN assign} :
     /\ i # j
     /\ Code(allData[i], col) # ""
     /\ Code(allData[i], col) = Code(allData[j], col)}

\* C3 - Antinomy: when the DISSO column is present and no class of the input
\* holds two students with the same non-empty antinomy code, no reachable
\* state has a class holding two students with the same antinomy code, and
\* the final validator returns ok.
AntinomyPreserved ==
  ("DISSO" \in headers /\ SameCodePairs(byClass0, "DISSO") = {})
    => /\ SameCodePairs(byClass, "DISSO") = {}
       /\ pc = "done" => validation.ok

\* The non-empty affinity codes of the cohort
AssoCodes == {Code(allData[i], "ASSO") : i \in DOMAIN allData} \ {""}

\* The classes of assign that hold at least one carrier of the affinity code
CarrierClasses(assign, code) ==
  {c \in DOMAIN assign : \E i \in Range(assign[c]) : Code(allData[i], "ASSO") = code}

\* C4 - Affinity, split count: for every affinity code, the number of classes
\* holding at least one carrier of the code is, in every reachable state, at
\* most what it is in the input.
AffinitySplitCount ==
  \A code \in AssoCodes :
    Cardinality(CarrierClasses(byClass, code)) <= Cardinality(CarrierClasses(byClass0, code))

\* A rotation has moved a carrier of an affinity code that other students
\* carry too
AffinitySplitWitness ==
  /\ lastMove.kind = "rot"
  /\ \E i \in {lastMove.a, lastMove.b, lastMove.c} :
       /\ Code(allData[i], "ASSO") # ""
       /\ \E j \in DOMAIN allData \ {i} : Code(allData[j], "ASSO") = Code(allData[i], "ASSO")

\* The pairs of students sharing an affinity code in one class of the input
TogetherAtInput == {<<p[2], p[3]>> : p \in SameCodePairs(byClass0, "ASSO")}

\* C5 - Affinity, togetherness: two students who share a non-empty affinity
\* code and sit in the same class in the input sit in the same class in every
\* reachable state, through the two-way and the three-way phase.
AffinityTogether ==
  \A p \in TogetherAtInput : ClassesOf(byClass, p[1]) = ClassesOf(byClass, p[2])

\* A rotation has taken a student out of a class where two students of one
\* affinity group sit together
AffinityTogetherWitness ==
  /\ lastMove.kind = "rot"
  /\ \E p \in TogetherAtInput :
       \E m \in {lastMove.a, lastMove.b, lastMove.c} \ {p[1], p[2]} :
         ClassesOf(byClass0, m) = ClassesOf(byClass0, p[1])

\* Student i sits, in class c, where its LV2 (when known and not universal)
\* and its OPT (when known) have a positive quota
OfferedTo(i, c) ==
  LET lv2 == Code(allData[i], "LV2")
      opt == Code(allData[i], "OPT")
  IN /\ (isKnownLV2(lv2) /\ lv2 \notin lv2Universelles) => QuotaOf(c, lv2) > 0
     /\ isKnownOPT(opt) => QuotaOf(c, opt) > 0

AllOffered(assign) ==
  \A c \in DOMAIN assign : \A i \in Range(assign[c]) : OfferedTo(i, c)

\* C6 - Elective offering: if in the input every student with a known,
\* non-universal LV2 and every student with a known OPT sits in a class whose
\* quota for that code is positive, the same holds after every applied move,
\* the third leg (c -> c1) of a three-way rotation included.
OfferingPreserved == AllOffered(byClass0) => AllOffered(byClass)

\* C7 - Monotone improvement: the sum of the class scores never increases
\* from one state of a run to the next, and each applied two-way swap and each
\* applied three-way rotation leaves it strictly lower, by exactly the gain
\* computed on the hypothetical lists that were scored.
MonotoneImprovement ==
  [][/\ TotalScore' <= TotalScore
     /\ swapsApplied' # swapsApplied =>
          /\ TotalScore' < TotalScore
          /\ lastMove'.gain = TotalScore - TotalScore']_vars

\* A rotation has been applied after a two-way swap, each with its gain
MonotoneWitness ==
  /\ lastMove.kind = "rot" /\ lastMove.gain > 0
  /\ swapsApplied - swaps3WayU >= 1

\* C8 - Termination: every run ends, whatever is drawn: the validator runs and
\* a result is returned.  The two-way loop starts an iteration only below its
\* budget, so it makes at most maxSwaps iterations and applies at most
\* maxSwaps two-way swaps; the three-way loop makes at most Max3WayIter outer
\* iterations.
Termination ==
  /\ [](/\ iter <= cfg.maxSwaps
        /\ swapsApplied - swaps3WayU <= iter
        /\ iter3 <= Max3WayIter
        /\ swaps3WayU <= iter3)
  /\ [][((pc = "twoway" /\ <<byClass, stagnationCount>>' # <<byClass, stagnationCount>>)
            => iter < cfg.maxSwaps)
         /\ (iter3' # iter3 => iter3 < Max3WayIter)]_vars
  /\ <>[](pc = "done" /\ validation # NotValidated)

\* The two students of two distinct classes, with their classes
CrossPairs ==
  {q \in UNION {{t} \X Range(byClass[t[1]]) \X Range(byClass[t[2]]) :
                  t \in (DOMAIN byClass) \X (DOMAIN byClass)} : q[1][1] # q[1][2]}

\* C9 - Fail-closed: when the header row has no DISSO column, can-swap is false for
\* every pair of students in every state, the run applies no two-way swap and
\* no three-way rotation (the assignment stays the input's), and the validator
\* returns ok with no list of violations.
FailClosed ==
  (headers # NullHeaders /\ "DISSO" \notin headers) =>
    /\ \A q \in CrossPairs :
         ~canSwapStudents_Ultimate(q[2], q[3], q[1][1], q[1][2],
                                   byClass[q[1][1]], byClass[q[1][2]])
    /\ swapsApplied = 0 /\ swaps3WayU = 0 /\ byClass = byClass0
    /\ pc = "done" => validation = [ok |-> TRUE, message |-> "Colonne DISSO non trouvee"]

\* A run without the column has ended although a swap with a gain above the
\* acceptance threshold was there to be drawn
FailClosedWitness ==
  /\ "DISSO" \notin headers /\ pc = "done"
  /\ \E q \in CrossPairs : Exceeds(SwapGain(q[1][1], q[1][2], q[2], q[3]), 10000)

\* The students of class c of assign that carry the antinomy code
Carriers(assign, c, code) ==
  {i \in Range(assign[c]) : Code(allData[i], "DISSO") = code}

\* The (class, code) pairs of assign with more than one carrier
Violations(assign) ==
  {v \in (DOMAIN assign) \X ({Code(allData[i], "DISSO") : i \in DOMAIN allData} \ {""}) :
     Cardinality(Carriers(assign, v[1], v[2])) > 1}

\* What the validator must return on assign
ValidatorCorrectOn(assign, result) ==
  /\ result.ok <=> SameCodePairs(assign, "DISSO") = {}
  /\ Len(result.duplicates) = Cardinality(Violations(assign))
  /\ {<<d.classe, d.code>> : d \in Range(result.duplicates)} = Violations(assign)
  /\ \A d \in Range(result.duplicates) :
       /\ d.count = Cardinality(Carriers(assign, d.classe, d.code))
       /\ Len(d.noms) = d.count
       /\ Range(d.noms) = {NomOf(i) : i \in Carriers(assign, d.classe, d.code)}

\* C10 - Validator correctness: with the DISSO column present the validator
\* returns ok exactly when no class holds two or more students with the same
\* non-empty antinomy code; otherwise it returns exactly one violation for
\* each (class, code) with more than one carrier, whose count is the number
\* of carriers in the class and whose list of names has that length.
ValidatorCorrect ==
  "DISSO" \in headers =>
    /\ ValidatorCorrectOn(byClass, validateDISSOConstraints_Ultimate(byClass))
    /\ pc = "done" => ValidatorCorrectOn(byClass, validation)

\* The validator has reported two violations, one of them with three carriers
\* written in different cases
ValidatorWitness ==
  /\ pc = "done" /\ "DISSO" \in headers /\ ~validation.ok
  /\ Len(validation.duplicates) = 2
  /\ \E d \in Range(validation.duplicates) :
       /\ d.count = 3
       /\ \E i, j \in Carriers(byClass, d.classe, d.code) :
            allData[i].DISSO # allData[j].DISSO

-----------------------------------------------------------------------------
(* Properties of the cache manager *)

\* The class of a row
ClassOfRow(i) == CHOOSE cls \in Range(classNames) : i \in Range(byClass[cls])

\* A class offers a code when its quota for the code is positive
Admissible(i) ==
  LET lv2 == Code(allData[i], "LV2")
      opt == Code(allData[i], "OPT")
  IN {cls \in Range(classNames) :
        /\ lv2 # "" => QuotaOf(cls, lv2) > 0
        /\ opt # "" => QuotaOf(cls, opt) > 0}

\* C11: once the mobility flags are computed, a student is labelled FIXE
\* exactly when it carries an affinity code, or an antinomy code, or exactly
\* one class offers both its LV2 and its OPT
FixedIffConstrained ==
  pc = "flagged" =>
    \A i \in DOMAIN allData :
      allData[i].mobilite = "FIXE"
        <=> \/ Code(allData[i], "ASSO") # ""
            \/ Code(allData[i], "DISSO") # ""
            \/ Cardinality(Admissible(i)) = 1

\* C12: the audit lists a row as an OPT offered-violation exactly when its
\* OPT is non-empty and has no positive quota in the row's class, and as an
\* LV2 offered-violation exactly when its LV2 is non-empty and has no
\* positive quota in the row's class
AuditListsUnoffered ==
  pc = "audited" =>
    \A cls \in Range(classNames) : \A i \in Range(byClass[cls]) :
      LET lv2 == Code(allData[i], "LV2")
          opt == Code(allData[i], "OPT")
      IN /\ i \in Range(audit[cls].violations.OPT) <=> (opt # "" /\ QuotaOf(cls, opt) <= 0)
         /\ i \in Range(audit[cls].violations.LV2) <=> (lv2 # "" /\ QuotaOf(cls, lv2) <= 0)

-----------------------------------------------------------------------------
(* Properties of the offerings *)

\* The destination classes
Destinations == Range(ctx.niveaux)

\* C13: with at least one destination class, a code is in the universal-LV2
\* set exactly when it is a known LV2 code and every destination class has
\* a positive quota for it
UniversalExact ==
  Destinations # {} =>
    \A code \in DOMAIN NormTable :
      code \in lv2Universelles
        <=> (isKnownLV2(code) /\ \A c \in Destinations : QuotaOf(c, code) > 0)

\* The oracle's answer were the LV2 cell of student idx1 empty, all else equal
canSwapWithoutLV2(idx1, idx2, cls1Name, cls2Name, idxList1, idxList2) ==
  /\ AssoAllows(idx1, idx2, idxList1, idxList2)
  /\ "DISSO" \in headers
  /\ OfferAllows(allData[idx2], cls1Name)
  /\ OfferAllows([allData[idx1] EXCEPT !.LV2 = ""], cls2Name)
  /\ DissoAllows(idx1, idx2, idxList2)
  /\ DissoAllows(idx2, idx1, idxList1)

\* The ordered pairs (a in X, b in Y) of two distinct classes
SwapCandidates ==
  {t \in (DOMAIN byClass) \X (DOMAIN byClass) \X (DOMAIN allData) \X (DOMAIN allData) :
     /\ t[1] # t[2]
     /\ t[3] \in Range(byClass[t[1]])
     /\ t[4] \in Range(byClass[t[2]])}

\* Specialization preservation applies to student a entering class Y: Y has
\* a positive LATIN or CHAV quota, a carries neither option and a's LV2 is
\* not ESP
SpecializationApplies(a, Y) ==
  /\ QuotaOf(Y, "LATIN") > 0 \/ QuotaOf(Y, "CHAV") > 0
  /\ Code(allData[a], "OPT") \notin {"LATIN", "CHAV"}
  /\ Code(allData[a], "LV2") # "ESP"

\* The oracle answers as it would with a's LV2 empty
SameWithoutLV2(t) ==
  canSwapStudents_Ultimate(t[3], t[4], t[1], t[2], byClass[t[1]], byClass[t[2]])
    <=> canSwapWithoutLV2(t[3], t[4], t[1], t[2], byClass[t[1]], byClass[t[2]])

\* C14 as stated: for every pair (a in X, b in Y) where a's LV2 is universal,
\* the oracle answers as it would with a's LV2 empty
UniversalNeverRestricts ==
  \A t \in SwapCandidates :
    Code(allData[t[3]], "LV2") \in lv2Universelles => SameWithoutLV2(t)

\* C14, amended: for every pair (a in X, b in Y) where a's LV2 is universal
\* and specialization preservation does not apply to a entering Y, the
\* oracle answers as it would with a's LV2 empty
UniversalPassesOffering ==
  \A t \in SwapCandidates :
    (Code(allData[t[3]], "LV2") \in lv2Universelles /\ ~SpecializationApplies(t[3], t[2]))
      => SameWithoutLV2(t)

\* A swap was applied whose first student carries a universal LV2
UniversalSwapWitness ==
  /\ lastMove.kind = "swap"
  /\ Code(allData[lastMove.idx1], "LV2") \in lv2Universelles

-----------------------------------------------------------------------------
(* Boundary cases of a run *)

\* The run has left the two-way loop
PastTwoWay == pc \in {"threeway", "validate", "done"}

\* C15: with exactly one class no swap and no rotation is applied, nothing is
\* thrown, the assignment stays the input, the two-way loop (its budget
\* allowing) ends exactly when the no-partner count has passed 10, and the
\* run ends returning ok
SingleClassQuiet ==
  /\ [](Len(classNames) = 1 =>
          /\ swapsApplied = 0 /\ swaps3WayU = 0
          /\ byClass = byClass0
          /\ pc # "thrown"
          /\ pc = "twoway" => stagnationCount <= NoPartnerLimit
          /\ (PastTwoWay /\ cfg.maxSwaps > NoPartnerLimit)
               => stagnationCount = NoPartnerLimit + 1
          /\ pc = "done" => (Result.ok /\ Result.swapsApplied = 0 /\ Result.swaps3Way = 0))
  /\ (Len(classNames) = 1) ~> (pc = "done")

\* A single-class run ended after its eleventh iteration without a partner
SingleClassWitness ==
  /\ Len(classNames) = 1
  /\ pc = "done"
  /\ stagnationCount = NoPartnerLimit + 1
  /\ iter = NoPartnerLimit

\* Every student of a non-empty cohort carries the mobility text FIXE
AllMarkedFixed ==
  /\ DOMAIN allData # {}
  /\ \A i \in DOMAIN allData : allData[i].mobilite = "FIXE"

\* C16: when every student is fixed no swap and no rotation is applied, the
\* assignment stays the input, nothing is thrown, and the validation returned
\* lists exactly the antinomy duplications of the input (ok iff it had none)
AllFixedQuiet ==
  AllMarkedFixed =>
    /\ swapsApplied = 0 /\ swaps3WayU = 0
    /\ byClass = byClass0
    /\ pc # "thrown"
    /\ pc = "done" => /\ Result.validation # NotValidated
                      /\ ValidatorCorrectOn(byClass0, Result.validation)

\* A run on fixed students only ended with the input's duplication reported
AllFixedWitness ==
  /\ AllMarkedFixed
  /\ pc = "done"
  /\ ~validation.ok
  /\ Len(validation.duplicates) = 1

\* C17: on a cohort of zero students the run makes no iteration, applies no
\* swap and no rotation, throws nothing, and returns ok with swapsApplied 0
\* and a validation without violations
EmptyCohortOk ==
  DOMAIN allData = {} =>
    /\ iter = 0 /\ stagnationCount = 0
    /\ swapsApplied = 0 /\ swaps3WayU = 0
    /\ pc # "thrown"
    /\ pc = "done" => (Result.ok /\ Result.swapsApplied = 0 /\ Result.validation.ok)

-----------------------------------------------------------------------------
(* A second run on the assignment a run returned *)

\* A run started on the current assignment can apply a swap: its first
\* iterations see this assignment, hence the same worst class
RerunCanSwap ==
  \E worstClassKey \in {findWorstClass_Ultimate} :
    /\ worstClassKey # NoClass
    /\ \E bestSwap \in BestSwaps(worstClassKey) : Accepted(bestSwap)

\* A run started on the current assignment can apply a rotation
RerunCanRotate == Best3WayChoices # {}

\* The admissible swaps between the worst class and another class that gain
\* more than 0.0001
ImprovingPairs ==
  LET worst == findWorstClass_Ultimate
  IN IF worst = NoClass THEN {}
     ELSE {t \in Range(OtherClasses(worst)) \X Range(byClass[worst]) \X (DOMAIN allData) :
             /\ t[3] \in Range(byClass[t[1]])
             /\ PairEligible(worst, t[1], t[2], t[3])
             /\ Exceeds(SwapGain(worst, t[1], t[2], t[3]), 10000)}

\* The admissible rotations that gain more than 0.001
ImprovingRotations ==
  {r \in Rotations : RotationEligible(r) /\ Exceeds(RotationGain(r), 1000)}

-----------------------------------------------------------------------------
(* The draws of a run *)

\* The assignments the next step of the run can leave, over the outcomes of
\* the Math.random() draws it makes (the run holds no seed and no generator
\* state: a draw is fixed by nothing the run is given)
Outcomes ==
  CASE pc = "twoway" /\ TwoWayLoopGuard ->
         LET worst == findWorstClass_Ultimate
         IN IF worst = NoClass THEN {byClass}
            ELSE {applySwap_Ultimate(bestSwap) :
                    bestSwap \in {b \in BestSwaps(worst) : Accepted(b)}}
                 \cup (IF NoClass \in PartnerChoices(worst)
                          \/ \E b \in BestSwaps(worst) : ~Accepted(b)
                       THEN {byClass} ELSE {})
    [] pc = "threeway" /\ ThreeWayLoopGuard ->
         {applyRotation(r) : r \in Best3WayChoices} \cup {byClass}
    [] OTHER -> {byClass}

\* C19: the moves of a run are fixed by its inputs: in every state the next
\* step can leave one assignment only
Determinism == Cardinality(Outcomes) = 1

-----------------------------------------------------------------------------
(* The report of budget exhaustion *)

\* result.exhausted as a caller reads it: a missing field is undefined
ReportedExhausted == "exhausted" \in DOMAIN Result /\ Result["exhausted"] = TRUE

\* The two-way loop ended by its condition after maxSwaps iterations, none
\* of its break statements having been reached
BudgetExhausted == iter = cfg.maxSwaps

\* C20: the result of a run carries exhausted = true exactly when the
\* two-way loop made maxSwaps iterations without a stagnation stop or a
\* missing worst class or partner stop
ExhaustionReported == pc = "done" => (ReportedExhausted <=> BudgetExhausted)

-----------------------------------------------------------------------------
(* Scenarios *)

\* The run is on the pure-parity cohort
ParityScenario == classNames = <<"5A", "5B">> /\ NbStudents = 8

\* Both classes hold two girls and two boys
Balanced == \A c \in {"5A", "5B"} : Len(byClass[c]) = 4 /\ NbFilles(byClass[c]) = 2

\* C21 as stated: every run on the pure-parity cohort that has ended has
\* applied one or two swaps and left both classes balanced
ParityAlwaysReached ==
  (ParityScenario /\ pc = "done") => (swapsApplied \in {1, 2} /\ Balanced)

\* C21, amended: a run on the pure-parity cohort never applies more than one
\* swap, and has ended either with exactly one swap applied and both classes
\* balanced, or with none applied and the input assignment (no iteration
\* drew an improving pair)
ParityReachedOrUntouched ==
  ParityScenario =>
    /\ swapsApplied <= 1 /\ swaps3WayU = 0
    /\ swapsApplied = 1 => Balanced
    /\ swapsApplied = 0 => byClass = byClass0
    /\ pc # "thrown"

\* A run on the pure-parity cohort ended balanced after one swap
ParityWitness == ParityScenario /\ pc = "done" /\ swapsApplied = 1 /\ Balanced

\* No admissible two-way swap between any two classes has a positive gain
NoImprovingSwap ==
  \A q \in CrossPairs :
    PairEligible(q[1][1], q[1][2], q[2], q[3]) => SwapGain(q[1][1], q[1][2], q[2], q[3]) <= 0

\* A two-way deadlock a rotation can break: three classes, no improving
\* admissible swap, some admissible rotation above the acceptance threshold
Deadlocked ==
  /\ Len(classNames) = 3
  /\ NoImprovingSwap
  /\ ImprovingRotations # {}

\* C22 as stated: a run that starts in such a deadlock applies no two-way
\* swap and at least one rotation, so it never reaches validation with the
\* assignment untouched
DeadlockBrokenByRotation ==
  /\ []((Deadlocked /\ swapsApplied = 0) => pc \notin {"validate", "done", "thrown"})
  /\ [][(Deadlocked /\ swapsApplied = 0 /\ pc = "twoway") => swapsApplied' = 0]_vars

\* C22 amended: from such a deadlock the two-way phase applies nothing; the
\* rotation phase either applies one improving admissible rotation, or, when
\* its draws miss every one of them, stops with no rotation applied
DeadlockLeftToRotation ==
  [][(Deadlocked /\ swapsApplied = 0) =>
       /\ pc = "twoway" => (byClass' = byClass /\ swapsApplied' = 0 /\ swaps3WayU' = 0)
       /\ pc = "threeway" =>
            \/ /\ swaps3WayU' = 1 /\ swapsApplied' = 1
               /\ lastMove'.kind = "rot" /\ Exceeds(lastMove'.gain, 1000)
               /\ TotalScore' < TotalScore
            \/ byClass' = byClass /\ swaps3WayU' = 0 /\ swapsApplied' = 0]_vars

DeadlockWitness ==
  Deadlocked /\ pc = "threeway" /\ iter >= 1 /\ swapsApplied = 0 /\ swaps3WayU = 0

\* C23: the stagnation counter is reset by every applied two-way swap, is
\* incremented by every iteration that applies none, never exceeds
\* stagnationLimit, and the loop goes on to a next iteration only while the
\* counter is below stagnationLimit; a run that has applied nothing has
\* counted every iteration it made
StagnationControl ==
  /\ [](stagnationCount <= cfg.stagnationLimit)
  /\ []((pc = "twoway" /\ swapsApplied = 0) =>
          (stagnationCount = iter /\ stagnationCount < cfg.stagnationLimit))
  /\ [][(pc = "twoway" /\ TwoWayLoopGuard /\ findWorstClass_Ultimate # NoClass) =>
          /\ byClass' # byClass => stagnationCount' = 0
          /\ byClass' = byClass => stagnationCount' = stagnationCount + 1
          /\ pc' = "twoway" => stagnationCount' < cfg.stagnationLimit
          /\ stagnationCount' >= cfg.stagnationLimit => pc' = "threeway"]_vars

\* Every class of a non-empty set of classes has score 0
Perfect == classNames # <<>> /\ \A k \in DOMAIN classNames : Score(classNames[k]) = 0

\* C24: on a perfect assignment worst-class identification reports no worst
\* class, and the iteration ends the two-way loop at once, without counting a
\* stagnation or consuming an iteration
PerfectConvergesAtOnce ==
  /\ [](Perfect => findWorstClass_Ultimate = NoClass)
  /\ [][(Perfect /\ pc = "twoway" /\ TwoWayLoopGuard) =>
          (pc' = "threeway" /\ iter' = iter /\ stagnationCount' = stagnationCount)]_vars

\* C25: in every state of a run with at least two classes, partner selection
\* for a worst class W returns an existing class other than W on either
\* branch; it returns no partner exactly when W is the only class
PartnerIsAnotherClass ==
  \A W \in Range(classNames) :
    /\ Len(classNames) >= 2 => PartnerChoices(W) \subseteq (Range(classNames) \ {W})
    /\ NoClass \in PartnerChoices(W) <=> Len(classNames) = 1

\* After some iteration of a three-class run, exploration can return a class
\* the complementarity choice does not
PartnerWitness ==
  /\ Len(classNames) = 3 /\ pc = "twoway" /\ iter >= 1
  /\ Cardinality(PartnerChoices(findWorstClass_Ultimate)) = 2

\* The pairs of pupils of two different classes, one of them fixed, for which
\* the oracle answers true
FixedPairsAllowed ==
  {q \in CrossPairs :
     /\ isFixed(allData[q[2]]) \/ isFixed(allData[q[3]])
     /\ canSwapStudents_Ultimate(q[2], q[3], q[1][1], q[1][2],
                                 byClass[q[1][1]], byClass[q[1][2]])}

\* C26 as stated: the oracle itself answers false for every pair that holds a
\* fixed pupil
OracleRefusesFixed == FixedPairsAllowed = {}

\* C26 amended: the oracle does not look at mobility; its callers do, so no
\* step of a run takes a fixed pupil out of its class
FixedStayInPlace ==
  [][\A c \in DOMAIN byClass : \A i \in Range(byClass[c]) :
       isFixed(allData[i]) => i \in Range(byClass'[c])]_vars

\* The oracle answers true for a pair with a fixed pupil, after a two-way swap
\* and a rotation have been applied around the fixed pupils
FixedOracleWitness ==
  /\ FixedPairsAllowed # {}
  /\ swaps3WayU >= 1 /\ swapsApplied - swaps3WayU >= 1

\* Pupil i carries an antinomy code that a pupil of class cls other than out
\* carries too
DissoConflict(i, out, cls) ==
  /\ Code(allData[i], "DISSO") # ""
  /\ \E j \in Range(byClass[cls]) \ {out} :
       Code(allData[j], "DISSO") = Code(allData[i], "DISSO")

\* C27: the oracle answers false for a in X and b in Y whenever a's antinomy
\* code is carried in Y by another pupil than b, or b's in X by another than a;
\* the partner is not counted: two carriers of one code in different classes
\* with no third carrier in either class are exchangeable as far as the
\* antinomy rule goes
AntinomyRule ==
  \A q \in CrossPairs :
    LET X == q[1][1]
        Y == q[1][2]
        a == q[2]
        b == q[3]
        answer == canSwapStudents_Ultimate(a, b, X, Y, byClass[X], byClass[Y])
    IN /\ (DissoConflict(a, b, Y) \/ DissoConflict(b, a, X)) => ~answer
       /\ (/\ "DISSO" \in headers
           /\ Code(allData[a], "DISSO") # ""
           /\ Code(allData[a], "DISSO") = Code(allData[b], "DISSO")
           /\ ~DissoConflict(a, b, Y) /\ ~DissoConflict(b, a, X)
           /\ AssoAllows(a, b, byClass[X], byClass[Y])
           /\ OfferAllows(allData[b], X) /\ OfferAllows(allData[a], Y)) => answer

\* A two-way swap has just exchanged two carriers of the same antinomy code
AntinomyRuleWitness ==
  /\ lastMove.kind = "swap"
  /\ Code(allData[lastMove.idx1], "DISSO") # ""
  /\ Code(allData[lastMove.idx1], "DISSO") = Code(allData[lastMove.idx2], "DISSO")

\* Pupil i carries an affinity code that another pupil of class cls carries too
AssoConflict(i, cls) ==
  /\ Code(allData[i], "ASSO") # ""
  /\ \E j \in Range(byClass[cls]) \ {i} :
       Code(allData[j], "ASSO") = Code(allData[i], "ASSO")

\* s1 and s2 of 5A share an affinity code and s3 is alone in 5B
TogetherScenario ==
  /\ byClass0 = LayoutDuo.assign
  /\ Code(allData[1], "ASSO") # ""
  /\ Code(allData[1], "ASSO") = Code(allData[2], "ASSO")

\* C28: the oracle answers false for a in X and b in Y whenever another pupil
\* of X carries a's affinity code or another pupil of Y carries b's, and only
\* the other rules reject a pair without such a companion; so with s1 and s2
\* of 5A sharing a code and s3 in 5B, a run applies no move at all
AffinityRule ==
  /\ \A q \in CrossPairs :
       LET X == q[1][1]
           Y == q[1][2]
           a == q[2]
           b == q[3]
           answer == canSwapStudents_Ultimate(a, b, X, Y, byClass[X], byClass[Y])
       IN /\ (AssoConflict(a, X) \/ AssoConflict(b, Y)) => ~answer
          /\ (/\ ~AssoConflict(a, X) /\ ~AssoConflict(b, Y)
              /\ "DISSO" \in headers
              /\ OfferAllows(allData[b], X) /\ OfferAllows(allData[a], Y)
              /\ DissoAllows(a, b, byClass[Y]) /\ DissoAllows(b, a, byClass[X])) => answer
  /\ TogetherScenario => (swapsApplied = 0 /\ byClass = byClass0)

\* The scenario's run has ended untouched although exchanging s3 with a pupil
\* of 5A would lower the total score
AffinityRuleWitness ==
  /\ TogetherScenario /\ pc = "done" /\ swapsApplied = 0
  /\ \E q \in CrossPairs : SwapGain(q[1][1], q[1][2], q[2], q[3]) > 0

\* Class cls does not offer pupil i's known LV2, unless every destination
\* class offers that LV2, or does not offer pupil i's known OPT
NotOffered(i, cls) ==
  LET lv2 == Code(allData[i], "LV2")
      opt == Code(allData[i], "OPT")
  IN \/ /\ isKnownLV2(lv2)
        /\ \E c \in Destinations : QuotaOf(c, lv2) <= 0
        /\ QuotaOf(cls, lv2) <= 0
     \/ isKnownOPT(opt) /\ QuotaOf(cls, opt) <= 0

\* C29: the oracle answers false whenever a would enter a class Y, or b a
\* class X, that does not offer the pupil's LV2 or OPT; so the two pupils of
\* an applied two-way swap sit in classes that offer their LV2 and OPT
ElectiveRule ==
  /\ \A q \in CrossPairs :
       (NotOffered(q[3], q[1][1]) \/ NotOffered(q[2], q[1][2]))
         => ~canSwapStudents_Ultimate(q[2], q[3], q[1][1], q[1][2],
                                      byClass[q[1][1]], byClass[q[1][2]])
  /\ lastMove.kind = "swap" =>
       /\ ~NotOffered(lastMove.idx1, lastMove.cls2)
       /\ ~NotOffered(lastMove.idx2, lastMove.cls1)

\* The pairs a in X, b in Y where one of the two would enter a class with a
\* positive LATIN or CHAV quota while carrying neither option and an LV2 other
\* than ESP; with anyLV2 an empty LV2 counts as other than ESP
SpecializedEntries(anyLV2) ==
  {q \in CrossPairs :
     \E e \in {<<q[3], q[1][1]>>, <<q[2], q[1][2]>>} :
       /\ SpecializationApplies(e[1], e[2])
       /\ anyLV2 \/ Code(allData[e[1]], "LV2") # ""}

\* C30 as stated: the oracle answers false whenever a class with a positive
\* LATIN or CHAV quota would receive a pupil without LATIN or CHAV whose LV2 is
\* anything other than ESP, in either direction
SpecializationRefusesAll ==
  \A q \in SpecializedEntries(TRUE) :
    ~canSwapStudents_Ultimate(q[2], q[3], q[1][1], q[1][2],
                              byClass[q[1][1]], byClass[q[1][2]])

\* C30 amended: the same for a pupil who has an LV2 and it is not ESP; a pupil
\* without LV2 is not concerned by the rule
SpecializationRefusesCoded ==
  \A q \in SpecializedEntries(FALSE) :
    ~canSwapStudents_Ultimate(q[2], q[3], q[1][1], q[1][2],
                              byClass[q[1][1]], byClass[q[1][2]])

\* A run has ended while the rule alone forbids an exchange that would lower
\* the total score
SpecializationWitness ==
  /\ pc = "done"
  /\ \E q \in SpecializedEntries(FALSE) :
       /\ SwapGain(q[1][1], q[1][2], q[2], q[3]) > 0
       /\ \A i \in {q[2], q[3]} : Code(allData[i], "LV2") \in lv2Universelles \cup {""}
       /\ \A i \in {q[2], q[3]} : \A c \in {q[1][1], q[1][2]} :
            isKnownOPT(Code(allData[i], "OPT")) => QuotaOf(c, Code(allData[i], "OPT")) > 0

\* C31: no step changes the pupils' attributes, the headers, the cohort
\* statistics or the offerings; the membership lists change only in a step
\* that applies an accepted two-way swap or three-way rotation, and every
\* step that only evaluates (scores, oracle, worst class, partner, search)
\* leaves them as they were
EvaluationIsPure ==
  [][/\ inputs' = inputs
     /\ byClass' # byClass =>
          /\ swapsApplied' = swapsApplied + 1
          /\ lastMove'.kind \in {"swap", "rot"}
          /\ lastMove'.kind = "swap" =>
               /\ pc = "twoway" /\ Exceeds(lastMove'.gain, 10000)
               /\ byClass' = applySwap_Ultimate(lastMove')
          /\ lastMove'.kind = "rot" => (pc = "threeway" /\ Exceeds(lastMove'.gain, 1000))
     /\ swapsApplied' = swapsApplied => byClass' = byClass]_vars

\* A run has ended after iterations that only evaluated and others that
\* applied a move
PurityWitness ==
  pc = "done" /\ stagnationCount >= 1 /\ swapsApplied >= 1 /\ byClass # byClass0

\* C32: the oracle's verdict does not depend on the order of the two pupils:
\* for a in X and b in Y, asking (a, b, X, Y) and asking (b, a, Y, X) give the
\* same answer
OracleSymmetric ==
  \A q \in CrossPairs :
    canSwapStudents_Ultimate(q[2], q[3], q[1][1], q[1][2],
                             byClass[q[1][1]], byClass[q[1][2]])
      <=> canSwapStudents_Ultimate(q[3], q[2], q[1][2], q[1][1],
                                   byClass[q[1][2]], byClass[q[1][1]])

\* After an applied two-way swap the oracle allows some pairs and refuses
\* others
OracleSymmetricWitness ==
  /\ lastMove.kind = "swap"
  /\ \E q, r \in CrossPairs :
       /\ canSwapStudents_Ultimate(q[2], q[3], q[1][1], q[1][2],
                                   byClass[q[1][1]], byClass[q[1][2]])
       /\ ~canSwapStudents_Ultimate(r[2], r[3], r[1][1], r[1][2],
                                    byClass[r[1][1]], byClass[r[1][2]])

\* The cost of the set S of pupils placed in class c, times ScoreDen, written
\* from the terms of C33: size, heads (quadratic deficit, linear excess),
\* low tier (cubic excess), parity and the three mean deviations
CostReference(S, c) ==
  LET n == Cardinality(S)
      N == NbStudents
      h == Cardinality({i \in S : isHead(allData[i])})
      l == Cardinality({i \in S : isNiv1(allData[i])})
      f == Cardinality({i \in S : allData[i].sexe = "F"})
      sum(col) == SumInts([k \in 1..N |-> IF k \in S THEN allData[k][col] ELSE 0])
      size == IF TargetOf(c) # 0 THEN (n - TargetOf(c)) * (n - TargetOf(c)) * 800 ELSE 0
      heads == IF h < headMin THEN (headMin - h) * (headMin - h) * 500
               ELSE IF h > headMax THEN (h - headMax) * 200 ELSE 0
      low == IF l > niv1Max THEN (l - niv1Max) * (l - niv1Max) * (l - niv1Max) * 100 ELSE 0
      \* |x/n - X/N| * weight, over the denominator 2 * n * N
      dev(x, X, weight) == Abs(x * N - X * n) * weight
      ratios == dev(f, globalStats.nbFilles, 2 * 1000 * w_parity)
                + dev(sum("COM"), globalStats.sumCOM, 100 * w_distrib)
                + dev(sum("TRA"), globalStats.sumTRA, 100 * w_distrib)
                + dev(sum("PART"), globalStats.sumPART, 50 * w_distrib)
  IN IF n = 0 THEN 10000 * ScoreDen
     ELSE (size + heads + low) * ScoreDen + ratios * (LcmUpTo(N) \div n)

\* C33: the score of an empty class is 10000; the score of every class is the
\* sum of the terms above and is never negative
CostFunction ==
  \A c \in Range(classNames) :
    /\ calculateScore_Ultimate(<<>>, c) = 10000 * ScoreDen
    /\ Score(c) = CostReference(Range(byClass[c]), c)
    /\ Score(c) >= 0

\* At the end of a run a class holds two heads too many, two low-tier pupils
\* too many and misses its target size
CostWitness ==
  /\ pc = "done"
  /\ \E c \in Range(classNames) :
       /\ Cardinality({i \in Range(byClass[c]) : isHead(allData[i])}) >= headMax + 2
       /\ Cardinality({i \in Range(byClass[c]) : isNiv1(allData[i])}) >= niv1Max + 2
       /\ TargetOf(c) # 0 /\ TargetOf(c) # Len(byClass[c])

\* C34: worst-class identification returns a class whose score is maximal, and
\* among the classes of maximal score the first one in iteration order
WorstIsFirstMaximal ==
  classNames # <<>> =>
    \E k \in DOMAIN classNames :
      /\ findWorstClass_Ultimate = classNames[k]
      /\ \A j \in DOMAIN classNames : Score(classNames[j]) <= Score(classNames[k])
      /\ \A j \in 1..(k - 1) : Score(classNames[j]) < Score(classNames[k])

\* After an applied move two classes are tied for the maximal score and the
\* first of all classes is not among them
WorstWitness ==
  /\ swapsApplied >= 1
  /\ \E j, k \in DOMAIN classNames :
       /\ 1 < j /\ j < k
       /\ findWorstClass_Ultimate = classNames[j]
       /\ Score(classNames[k]) = Score(classNames[j])

\* The sampled pairs of cls1 x cls2 that hold no fixed pupil, pass the oracle
\* and have a positive gain
GoodPairs(cls1Name, cls2Name, sample) ==
  {p \in sample :
     /\ ~isFixed(allData[p[1]]) /\ ~isFixed(allData[p[2]])
     /\ canSwapStudents_Ultimate(p[1], p[2], cls1Name, cls2Name,
                                 byClass[cls1Name], byClass[cls2Name])
     /\ SwapGain(cls1Name, cls2Name, p[1], p[2]) > 0}

\* C35: for any two classes and any sample, the two-way search returns none
\* exactly when the sample holds no good pair, and otherwise a good pair of
\* the sample, with its gain, that no good pair of the sample exceeds
SearchReturnsBestSampled ==
  \A cls1Name \in Range(classNames), cls2Name \in Range(classNames) :
    cls1Name # cls2Name =>
      \A sample \in SampleSets(cls1Name, cls2Name) :
        \A good \in {GoodPairs(cls1Name, cls2Name, sample)} :
          \A m \in BestOfSample(cls1Name, cls2Name, sample,
                                ScoredPairs(cls1Name, cls2Name)) :
            /\ m = NoMove <=> good = {}
            /\ m # NoMove =>
                 /\ <<m.idx1, m.idx2>> \in good
                 /\ m.idx1 \in Range(byClass[cls1Name])
                 /\ m.idx2 \in Range(byClass[cls2Name])
                 /\ m.cls1 = cls1Name /\ m.cls2 = cls2Name
                 /\ m.gain = SwapGain(cls1Name, cls2Name, m.idx1, m.idx2)
                 /\ \A p \in good : SwapGain(cls1Name, cls2Name, p[1], p[2]) <= m.gain

\* After an iteration of the two-way loop, some sample holds two good pairs
\* of different gains, while a pair with a fixed pupil passes the oracle and
\* would have a positive gain
SearchWitness ==
  /\ pc = "twoway" /\ iter >= 1
  /\ \E cls1Name \in Range(classNames), cls2Name \in Range(classNames) :
       /\ cls1Name # cls2Name
       /\ \E sample \in SampleSets(cls1Name, cls2Name) :
            \E p, r \in GoodPairs(cls1Name, cls2Name, sample) :
              SwapGain(cls1Name, cls2Name, p[1], p[2])
                < SwapGain(cls1Name, cls2Name, r[1], r[2])
  /\ \E q \in FixedPairsAllowed : SwapGain(q[1][1], q[1][2], q[2], q[3]) > 0

SizesInvariant ==
  /\ [](\A c \in DOMAIN byClass :
          /\ Len(byClass[c]) = Len(byClass0[c])
          /\ Len(byClass[c]) > 0
          /\ Cardinality(Range(byClass[c])) = Len(byClass[c])
          /\ Score(c) # 10000 * ScoreDen)
  /\ [][\A c \in DOMAIN byClass :
          byClass'[c] # byClass[c] =>
            /\ Cardinality(Range(byClass[c]) \ Range(byClass'[c])) = 1
            /\ Cardinality(Range(byClass'[c]) \ Range(byClass[c])) = 1]_vars

\* A run with target sizes that differ from the headcounts has ended after a
\* rotation changed the classes
SizesWitness ==
  /\ pc = "done" /\ swaps3WayU >= 1 /\ byClass # byClass0
  /\ \E c \in DOMAIN byClass : TargetOf(c) # 0 /\ TargetOf(c) # Len(byClass[c])

\* Number of pupils of a class list carrying an antinomy code
CarriersIn(indices, code) ==
  Len(SelectSeq(indices, LAMBDA i : Code(allData[i], "DISSO") = code))

\* The (class, code) duplications the validator reports for an assignment
ReportedDuplications(assign) ==
  IF "DISSO" \in headers
  THEN LET dups == validateDISSOConstraints_Ultimate(assign).duplicates
       IN {<<dups[k].classe, dups[k].code>> : k \in DOMAIN dups}
  ELSE {}

\* C38: an applied two-way swap never raises the number of carriers of an
\* antinomy code in a class above 1 when it was at most 1, nor above its
\* previous value otherwise, so the duplications the validator would report
\* never gain an element in the two-way phase
AntinomyNeverWorsens ==
  [][lastMove'.kind = "swap" =>
       /\ \A c \in DOMAIN byClass, i \in DOMAIN allData :
            LET code == Code(allData[i], "DISSO")
                before == CarriersIn(byClass[c], code)
                after == CarriersIn(byClass'[c], code)
            IN code # "" => (IF before <= 1 THEN after <= 1 ELSE after <= before)
       /\ ReportedDuplications(byClass') \subseteq ReportedDuplications(byClass)]_vars

\* A two-way swap has just taken a carrier of a code out of a class that the
\* input gave a second carrier of the same code, who stays
AntinomyWitness ==
  /\ lastMove.kind = "swap"
  /\ Code(allData[lastMove.idx1], "DISSO") # ""
  /\ CarriersIn(byClass[lastMove.cls1], Code(allData[lastMove.idx1], "DISSO")) >= 1
  /\ ReportedDuplications(byClass0) # {}

\* Does the pupil carry an affinity or an antinomy code
Constrained(i) == Code(allData[i], "ASSO") # "" \/ Code(allData[i], "DISSO") # ""

\* The pupils a move takes from one class to another
Movers(move) ==
  CASE move.kind = "swap" -> {move.idx1, move.idx2}
    [] move.kind = "rot" -> {move.a, move.b, move.c}
    [] OTHER -> {}

====
